---- MODULE Spec2Model ----
(***************************************************************************)
(* ChainShield: PolicyRegistry, ClaimsProcessor and PayoutManager          *)
(* (src/contracts/*.sol) as one state machine.  Every external function is *)
(* one action; a reverted call leaves the contract state as it was and     *)
(* only records its error in `last`.  The one call that hands control to   *)
(* foreign code, the value transfer inside PayoutManager.withdraw, is      *)
(* split in two steps (call, return) with an explicit frame stack.         *)
(***************************************************************************)
EXTENDS Integers, Sequences, FiniteSets, TLC

(***************************************************************************)
(* Bounds of the model.                                                    *)
(***************************************************************************)
MaxClaims   == 2    \* claim ids 1..MaxClaims can be created
MaxPolicies == 1    \* policy ids 1..MaxPolicies can be created
MaxRequests == 2    \* randomness requests the coordinator hands out
MaxTime     == 3    \* block.timestamp runs from 1 to MaxTime
MaxDeposits == 2    \* the pool is funded with at most MaxDeposits deposit units
MaxDepth    == 2    \* nesting depth of withdraw calls inside one transaction
MaxLiveClaims == 1  \* claims filed in the deployed system
MaxRounds   == 2    \* random words cover MaxRounds rounds of the reviewer list

(***************************************************************************)
(* Identities.  ZERO is address(0); CP is the address of the               *)
(* ClaimsProcessor contract, PM that of the PayoutManager contract.        *)
(***************************************************************************)
ZERO     == "0x0"
ADMIN    == "admin"
CP       == "ClaimsProcessor"
PM       == "PayoutManager"
Accounts == {"admin", "alice", "bob"}
Address  == Accounts \cup {ZERO}
Holders  == {"alice"}            \* accounts that are given a policy
Reviewers == {"admin", "bob"}    \* accounts that are enrolled as reviewers
AdminCallers == {"admin", "alice"}   \* callers of the admin-only functions

(***************************************************************************)
(* Unsigned 256-bit arithmetic.  Solidity computes                         *)
(* (_usdAmount * 1e18) / (avaxUsdPrice * 1e2) on uint256; the products     *)
(* exceed the integers of the model checker, so numbers are sequences of   *)
(* digits in base Base, least significant first, without leading zeros.    *)
(***************************************************************************)
Base == 10000

RECURSIVE Digits(_)
Digits(n) == IF n = 0 THEN << >> ELSE <<n % Base>> \o Digits(n \div Base)

RECURSIVE BigToInt(_)
BigToInt(a) == IF a = << >> THEN 0 ELSE Head(a) + Base * BigToInt(Tail(a))

RECURSIVE BigTrim(_)
BigTrim(a) ==
  IF a = << >> THEN << >>
  ELSE IF a[Len(a)] = 0 THEN BigTrim(SubSeq(a, 1, Len(a) - 1)) ELSE a

BigRest(a) == IF a = << >> THEN << >> ELSE Tail(a)
BigLow(a)  == IF a = << >> THEN 0 ELSE Head(a)

RECURSIVE BigAddC(_, _, _)
BigAddC(a, b, c) ==
  IF a = << >> /\ b = << >>
    THEN (IF c = 0 THEN << >> ELSE <<c>>)
    ELSE LET s == BigLow(a) + BigLow(b) + c
         IN  <<s % Base>> \o BigAddC(BigRest(a), BigRest(b), s \div Base)

BigAdd(a, b) == BigAddC(a, b, 0)

RECURSIVE BigLessAt(_, _, _)
BigLessAt(a, b, i) ==
  IF i = 0 THEN FALSE
  ELSE IF a[i] # b[i] THEN a[i] < b[i] ELSE BigLessAt(a, b, i - 1)

BigLess(a, b) ==
  IF Len(a) # Len(b) THEN Len(a) < Len(b) ELSE BigLessAt(a, b, Len(a))

RECURSIVE BigSubB(_, _, _)
BigSubB(a, b, borrow) ==
  IF a = << >> THEN << >>
  ELSE LET d == Head(a) - BigLow(b) - borrow
       IN  <<IF d < 0 THEN d + Base ELSE d>>
             \o BigSubB(Tail(a), BigRest(b), IF d < 0 THEN 1 ELSE 0)

\* a - b for a >= b
BigSub(a, b) == BigTrim(BigSubB(a, b, 0))

RECURSIVE BigMulD(_, _, _)
BigMulD(a, d, c) ==
  IF a = << >>
    THEN (IF c = 0 THEN << >> ELSE <<c>>)
    ELSE LET p == Head(a) * d + c
         IN  <<p % Base>> \o BigMulD(Tail(a), d, p \div Base)

RECURSIVE BigMul(_, _)
BigMul(a, b) ==
  IF a = << >> \/ b = << >> THEN << >>
  ELSE LET hi == BigMul(a, Tail(b))
       IN  BigAdd(BigTrim(BigMulD(a, Head(b), 0)),
                  IF hi = << >> THEN << >> ELSE <<0>> \o hi)

\* the largest q in lo..hi with q * b <= r, for lo * b <= r
RECURSIVE BigQuotIn(_, _, _, _)
BigQuotIn(r, b, lo, hi) ==
  IF lo = hi THEN lo
  ELSE LET mid == (lo + hi + 1) \div 2
       IN  IF BigLess(r, BigTrim(BigMulD(b, mid, 0)))
             THEN BigQuotIn(r, b, lo, mid - 1)
             ELSE BigQuotIn(r, b, mid, hi)

\* floor(r / b) for r < Base * b
BigQuotDigit(r, b) == BigQuotIn(r, b, 0, Base - 1)

\* long division: the quotient digits of positions i..1 of a, given the
\* remainder r carried in from the positions above i
RECURSIVE BigDivFrom(_, _, _, _)
BigDivFrom(a, b, i, r) ==
  IF i = 0 THEN << >>
  ELSE LET cur == BigTrim(<<a[i]>> \o r)
           q   == BigQuotDigit(cur, b)
           rem == BigSub(cur, BigTrim(BigMulD(b, q, 0)))
       IN  \* the test evaluates rem before the next step
           IF Len(rem) >= 0 THEN BigDivFrom(a, b, i - 1, rem) \o <<q>>
           ELSE << >>

\* floor(a / b) for b > 0
BigDiv(a, b) == BigTrim(BigDivFrom(a, b, Len(a), << >>))

\* 10^k
RECURSIVE BigPow10(_)
BigPow10(k) == IF k < 4 THEN <<10^k>> ELSE <<0>> \o BigPow10(k - 4)

\* type(uint256).max = 2^256 - 1
UINT256_MAX ==
  <<9935,2963,9131,4007,5758,394,564,6564,9846,3269,
    785,6879,5008,7098,4235,6195,3731,892,5792,11>>

\* the result of an operation that exceeds uint256 (Solidity 0.8 panics)
Overflow == <<-1>>

\* a checked uint256 product: the digits, or Overflow
CheckedMul(a, b) ==
  LET p == BigMul(a, b) IN IF BigLess(UINT256_MAX, p) THEN Overflow ELSE p

(***************************************************************************)
(* Inputs of the operations.                                               *)
(***************************************************************************)
ClaimIds      == 0..MaxClaims          \* uint256 _claimId, created or not
PolicyIds     == 0..MaxPolicies        \* uint256 _policyId, created or not
RequestIds    == 1..MaxRequests
UsdAmounts    == {0, 1, 2}             \* USD with 6 decimals
\* an int256 answer of the price feed (8 decimals): its sign and the digits
\* of its absolute value
Quote(n) == [neg |-> n < 0, abs |-> Digits(IF n < 0 THEN -n ELSE n)]
PriceQuotes   == {Quote(-1), Quote(0), Quote(1000000000), Quote(2000000000)}
DepositValues == {10000000}            \* msg.value of a deposit, in wei
FraudRisks    == {19, 20, 71}           \* uint8 _fraudRisk
RandomWords   == {0, 1}
LivePrices    == {Quote(0), Quote(1000000000), Quote(2000000000)}
ScriptRisks   == {10}                  \* fraudRisk of the end-to-end script
ScriptPayouts == {2000000}             \* its recommendedPayoutUSD
\* a quote at which the script's payout converts to an amount of wei within
\* the range of the model's integers
ScriptQuotes  == {[neg |-> FALSE, abs |-> BigMul(BigPow10(16), Digits(2))]}
\* uint256 _usdAmount of a call of convertUSDToAVAX, as digits: small
\* amounts, the amounts of the scripts, the largest power of ten whose
\* product with 10^18 fits in 256 bits, and twice that
ConvertAmounts ==
  {Digits(u) : u \in UsdAmounts \cup ScriptPayouts} \cup
  {Digits(7), Digits(5000000), BigPow10(59), BigMul(BigPow10(59), Digits(2))}
\* int256 answers: invalid ones, small ones, the quotes of 10 and 20 USD,
\* and answers whose product with 10^2 does or does not fit in 256 bits
ConvertQuotes ==
  PriceQuotes \cup ScriptQuotes \cup
  {Quote(1), Quote(3), [neg |-> FALSE, abs |-> BigPow10(75)],
   [neg |-> FALSE, abs |-> BigPow10(76)]}

(***************************************************************************)
(* State.                                                                  *)
(***************************************************************************)
VARIABLES
  \* PolicyRegistry
  policies, nextPolicyId, claimsProcessor,
  \* ClaimsProcessor
  claims, nextClaimId, vrfRequestToClaim, reviewers, activeReviewers,
  payoutManager, aiOracle, autoApproveThreshold, autoRejectThreshold,
  \* PayoutManager
  payouts, balances, totalPayouts, totalWithdrawn, availableFunds, treasury,
  \* the chain and the external collaborators
  now,            \* block.timestamp
  price,          \* answer of priceFeed.latestRoundData()
  pmBalance,      \* address(PayoutManager).balance
  nextRequestId,  \* next request id of the VRF coordinator
  frames,         \* withdraw calls waiting for their value transfer to return
  last,           \* the last call and its outcome (err = "" : it succeeded)
  \* history
  deposited,      \* total value received by deposit() and receive()
  swept,          \* total value sent to the treasury
  credited,       \* per recipient, total credited by processPayout
  transferred,    \* per recipient, total value sent by withdraw
  fulfilled,      \* request ids the coordinator has delivered
  refused         \* per claim id, the error of its last approval or review
                  \* request that reverted after the guards of the call

registryVars  == <<policies, nextPolicyId, claimsProcessor>>
processorVars == <<claims, nextClaimId, vrfRequestToClaim, reviewers,
                   activeReviewers, payoutManager, aiOracle,
                   autoApproveThreshold, autoRejectThreshold, nextRequestId,
                   fulfilled, refused>>
payoutVars    == <<payouts, balances, totalPayouts, totalWithdrawn,
                   availableFunds, treasury, pmBalance, deposited, swept,
                   credited, transferred>>
vars == <<registryVars, processorVars, payoutVars, now, price, frames, last>>

(***************************************************************************)
(* PayoutManager (src/contracts/PayoutManager.sol)                         *)
(***************************************************************************)
\* mapping(uint256 => Payout): an unwritten slot reads as all zeros
NoPayout ==
  [claimId |-> 0, recipient |-> ZERO, usdAmount |-> 0, avaxAmount |-> 0,
   timestamp |-> 0, processed |-> FALSE, withdrawn |-> FALSE]

\* the record of a call: the operation, the caller and the revert reason
Call(op, who, id, err) == [op |-> op, who |-> who, err |-> err]

\* the conversion as the comment above the formula states it, dividing by
\* avaxUsdPrice * 10^10
USDToAVAXAsCommented(usdDigits, priceDigits) ==
  LET num == CheckedMul(usdDigits, BigPow10(18))
      den == CheckedMul(priceDigits, BigPow10(10))
  IN  IF num = Overflow \/ den = Overflow THEN Overflow
      ELSE BigDiv(num, den)

\* (_usdAmount * 1e18) / (avaxUsdPrice * 1e2) on digit sequences
USDToAVAX(usdDigits, priceDigits) ==
  LET num == CheckedMul(usdDigits, BigPow10(18))
      den == CheckedMul(priceDigits, BigPow10(2))
  IN  IF num = Overflow \/ den = Overflow THEN Overflow
      ELSE BigDiv(num, den)

validPrice(p) == ~p.neg /\ p.abs # << >>

\* the conversions the model performs
convertTable ==
  [u \in ConvertAmounts, p \in {q \in ConvertQuotes : validPrice(q)} |->
     USDToAVAX(u, p.abs)]

\* convertUSDToAVAX on an amount of any size, under the answer quote: the
\* error and the digits of the result
convertDigits(usdDigits, quote) ==
  IF ~validPrice(quote) THEN [err |-> "Invalid price data", digits |-> << >>]
  ELSE LET d == convertTable[usdDigits, quote]
       IN  IF d = Overflow THEN [err |-> "Panic", digits |-> << >>]
           ELSE [err |-> "", digits |-> d]

\* the outcome of the checked arithmetic: [err, value]
checked(digits) ==
  IF digits = Overflow THEN [err |-> "Panic", value |-> 0]
  ELSE [err |-> "", value |-> BigToInt(digits)]

\* convertUSDToAVAX: [err, value]
convertUSDToAVAX(_usdAmount) ==
  IF ~validPrice(price) THEN [err |-> "Invalid price data", value |-> 0]
  ELSE checked(convertTable[Digits(_usdAmount), price])

\* the existence test reading the flag that nothing ever sets
payoutExistsByWithdrawn(_claimId) == payouts[_claimId].withdrawn

payoutExists(_claimId) == payouts[_claimId].claimId # 0

\* the funds test that only asks for a pool that is not empty
poolNotEmpty(avaxAmount) == availableFunds > 0

\* the funds test reading the contract's balance in place of the pool
sufficientBalance(avaxAmount) == pmBalance >= avaxAmount

sufficientFunds(avaxAmount) == availableFunds >= avaxAmount

pmClaimsProcessor == CP    \* constructor argument _claimsProcessor

\* processPayout called by sender, conv being the result of the conversion:
\* the error, and the state it leaves
payoutOf(sender, _claimId, _recipient, _usdAmount, conv) ==
  LET avaxAmount == conv.value
      err ==
        IF sender # pmClaimsProcessor THEN "Only claims processor"
        ELSE IF payoutExists(_claimId) THEN "Payout already processed"
        ELSE IF ~(_usdAmount > 0) THEN "Amount must be positive"
        ELSE IF conv.err # "" THEN conv.err
        ELSE IF ~sufficientFunds(avaxAmount) THEN "Insufficient funds"
        ELSE ""
  IN  [err |-> err,
       payouts |-> [payouts EXCEPT ![_claimId] =
                      [claimId |-> _claimId, recipient |-> _recipient,
                       usdAmount |-> _usdAmount, avaxAmount |-> avaxAmount,
                       timestamp |-> now, processed |-> TRUE,
                       withdrawn |-> FALSE]],
       balances |-> [balances EXCEPT ![_recipient] = @ + avaxAmount],
       availableFunds |-> availableFunds - avaxAmount,
       totalPayouts |-> totalPayouts + avaxAmount,
       credited |-> [credited EXCEPT ![_recipient] = @ + avaxAmount]]

processPayout(sender, _claimId, _recipient, _usdAmount) ==
  payoutOf(sender, _claimId, _recipient, _usdAmount,
           convertUSDToAVAX(_usdAmount))

\* the effects of processPayout, applied when the call did not revert
Credit(res) ==
  IF res.err = ""
    THEN /\ payouts' = res.payouts
         /\ balances' = res.balances
         /\ availableFunds' = res.availableFunds
         /\ totalPayouts' = res.totalPayouts
         /\ credited' = res.credited
    ELSE UNCHANGED <<payouts, balances, availableFunds, totalPayouts, credited>>

pmAdmin == ADMIN           \* constructor: admin = msg.sender

TopLevel == frames = << >>  \* no transaction is in progress

\* a direct call of processPayout (by any account, or by the address that
\* the constructor registered as claimsProcessor)
CallProcessPayout ==
  /\ TopLevel
  /\ \E sender \in {pmClaimsProcessor, "alice"}, c \in ClaimIds \ {0},
        r \in Accounts, u \in UsdAmounts :
       /\ last' = Call("processPayout", sender, c,
                       processPayout(sender, c, r, u).err)
       /\ Credit(processPayout(sender, c, r, u))
  /\ UNCHANGED <<registryVars, processorVars, totalWithdrawn, treasury,
                 pmBalance, deposited, swept, transferred, now, price, frames>>

\* deposit() and receive(): availableFunds += msg.value
fund(op) ==
  /\ TopLevel
  /\ \E sender \in Accounts, value \in DepositValues :
       /\ deposited + value <= MaxDeposits * 10000000
       /\ availableFunds' = availableFunds + value
       /\ pmBalance' = pmBalance + value
       /\ deposited' = deposited + value
       /\ last' = Call(op, sender, 0, "")
  /\ UNCHANGED <<registryVars, processorVars, payouts, balances, totalPayouts,
                 totalWithdrawn, treasury, swept, credited, transferred, now,
                 price, frames>>

deposit == fund("deposit")
receive == fund("receive")

\* what a revert of withdraw restores
Saved == [balances |-> balances, totalWithdrawn |-> totalWithdrawn,
          pmBalance |-> pmBalance, transferred |-> transferred]

withdrawAmount(sender) == balances[sender]

\* the balance left in place until the transfer has returned
balanceAfterTransfer(sender) == balances[sender]

\* the balance withdraw leaves in storage before it transfers
balanceBeforeTransfer(sender) == 0

\* withdraw(), up to and including the value transfer
\* payable(msg.sender).call{value: amount}(""): control is now with the
\* caller's code.  Called at top level, or from inside a pending transfer.
withdraw ==
  /\ \E sender \in Accounts :
       LET amount == withdrawAmount(sender) IN
       IF ~(amount > 0)
         THEN /\ last' = Call("withdraw", sender, Len(frames), "No balance to withdraw")
              /\ UNCHANGED <<balances, pmBalance, transferred, frames>>
         ELSE IF pmBalance < amount   \* the call cannot carry the value
           THEN /\ last' = Call("withdraw", sender, Len(frames), "Transfer failed")
                /\ UNCHANGED <<balances, pmBalance, transferred, frames>>
           ELSE /\ Len(frames) < MaxDepth
                /\ balances' = [balances EXCEPT ![sender] = balanceBeforeTransfer(sender)]
                /\ pmBalance' = pmBalance - amount
                /\ transferred' = [transferred EXCEPT ![sender] = @ + amount]
                /\ frames' = Append(frames, [caller |-> sender, amount |-> amount,
                                             saved |-> Saved])
                /\ last' = Call("transfer", sender, Len(frames), "")
  /\ UNCHANGED <<registryVars, processorVars, payouts, totalPayouts,
                 totalWithdrawn, availableFunds, treasury, deposited, swept,
                 credited, now, price>>

\* a rollback that restores the balances and the funds, and keeps the total
restoreBalances(f) == [f.saved EXCEPT !.totalWithdrawn = totalWithdrawn]

\* a rollback that takes the funds back and leaves the balance at zero
restoreFunds(f) == [f.saved EXCEPT !.balances = balances]

\* the state after require(success, "Transfer failed") fails
revertWithdraw(f) == f.saved

\* the innermost pending transfer returns: success, and withdraw finishes
\* (totalWithdrawn += amount), or failure, and withdraw reverts
transferReturns ==
  /\ frames # << >>
  /\ LET f == frames[Len(frames)] IN
     \E success \in BOOLEAN :
       /\ frames' = SubSeq(frames, 1, Len(frames) - 1)
       /\ IF success
            THEN /\ totalWithdrawn' = totalWithdrawn + f.amount
                 /\ last' = Call("withdraw", f.caller, Len(frames) - 1, "")
                 /\ UNCHANGED <<balances, pmBalance, transferred>>
            ELSE /\ balances' = revertWithdraw(f).balances
                 /\ totalWithdrawn' = revertWithdraw(f).totalWithdrawn
                 /\ pmBalance' = revertWithdraw(f).pmBalance
                 /\ transferred' = revertWithdraw(f).transferred
                 /\ last' = Call("withdraw", f.caller, Len(frames) - 1, "Transfer failed")
  /\ UNCHANGED <<registryVars, processorVars, payouts, totalPayouts,
                 availableFunds, treasury, deposited, swept, credited, now,
                 price>>

SweepValues == {0, 10000000}

\* address(this).balance - totalPayouts + totalWithdrawn, checked
sweepBound ==
  [err |-> IF pmBalance < totalPayouts THEN "Panic" ELSE "",
   value |-> pmBalance - totalPayouts + totalWithdrawn]

\* the error of withdrawToTreasury(_amount) called by sender, the treasury
\* accepting the transfer or not
sweepGuard(sender, _amount, accepted) ==
  IF sender # pmAdmin THEN "Only admin"
  ELSE IF sweepBound.err # "" THEN sweepBound.err
  ELSE IF ~(_amount <= sweepBound.value) THEN "Exceeds available funds"
  ELSE IF availableFunds < _amount THEN "Panic"
  ELSE IF ~accepted THEN "Transfer failed"
  ELSE ""

withdrawToTreasury(callers) ==
  /\ TopLevel
  /\ \E sender \in callers, _amount \in SweepValues, accepted \in BOOLEAN :
       LET err == sweepGuard(sender, _amount, accepted) IN
       /\ last' = Call("withdrawToTreasury", sender, 0, err)
       /\ IF err = ""
            THEN /\ availableFunds' = availableFunds - _amount
                 /\ pmBalance' = pmBalance - _amount
                 /\ swept' = swept + _amount
            ELSE UNCHANGED <<availableFunds, pmBalance, swept>>
  /\ UNCHANGED <<registryVars, processorVars, payouts, balances, totalPayouts,
                 totalWithdrawn, treasury, deposited, credited, transferred,
                 now, price, frames>>

setTreasury(callers) ==
  /\ TopLevel
  /\ \E sender \in callers, _treasury \in {"admin", "bob"} :
       /\ last' = Call("setTreasury", sender, 0,
                       IF sender = pmAdmin THEN "" ELSE "Only admin")
       /\ treasury' = IF sender = pmAdmin THEN _treasury ELSE treasury
  /\ UNCHANGED <<registryVars, processorVars, payouts, balances, totalPayouts,
                 totalWithdrawn, availableFunds, pmBalance, deposited, swept,
                 credited, transferred, now, price, frames>>

\* the price feed reports a new answer (a new round, or setPriceFeed to
\* another aggregator)
newPrice(quotes) ==
  /\ TopLevel
  /\ \E p \in quotes : price' = p /\ p # price
  /\ last' = Call("latestRoundData", ZERO, 0, "")
  /\ UNCHANGED <<registryVars, processorVars, payoutVars, now, frames>>

\* anyone reads convertUSDToAVAX(_usdAmount), a view function: the call and
\* its outcome are recorded, the contracts' state is not changed
CallConvert(amounts) ==
  /\ TopLevel
  /\ \E sender \in Accounts, _usdAmount \in amounts :
       LET res == convertDigits(_usdAmount, price) IN
       last' = [op |-> "convertUSDToAVAX", who |-> sender, err |-> res.err,
                usdAmount |-> _usdAmount, price |-> price,
                avaxAmount |-> res.digits]
  /\ UNCHANGED <<registryVars, processorVars, payoutVars, now, price, frames>>

\* a new block with a later timestamp
tick ==
  /\ TopLevel
  /\ now < MaxTime
  /\ now' = now + 1
  /\ last' = Call("block", ZERO, 0, "")
  /\ UNCHANGED <<registryVars, processorVars, payoutVars, price, frames>>

(***************************************************************************)
(* PolicyRegistry (src/contracts/PolicyRegistry.sol)                       *)
(***************************************************************************)
\* mapping(uint256 => Policy): an unwritten slot reads as all zeros
NoPolicy ==
  [policyId |-> 0, policyholder |-> ZERO, premium |-> 0, coverage |-> 0,
   deductible |-> 0, policyType |-> "", startDate |-> 0, endDate |-> 0,
   isActive |-> FALSE, claimsCount |-> 0, totalPayouts |-> 0]

registryAdmin == ADMIN     \* constructor: admin = msg.sender

\* (premium, coverage, deductible) of createPolicy and updatePolicy
PolicyTerms == {<<1, 5, 1>>, <<2, 5, 0>>}
Durations   == {0, 1}
NewPolicyTerms == {<<1, 5, 1>>}
NewDurations   == {1}

policyExists(_policyId) == policies[_policyId].policyId = _policyId

setClaimsProcessor(callers) ==
  /\ TopLevel
  /\ \E sender \in callers, _claimsProcessor \in {CP} :
       /\ last' = Call("setClaimsProcessor", sender, 0,
                       IF sender = registryAdmin THEN "" ELSE "Only admin")
       /\ claimsProcessor' =
            IF sender = registryAdmin THEN _claimsProcessor ELSE claimsProcessor
  /\ UNCHANGED <<policies, nextPolicyId, processorVars, payoutVars, now, price,
                 frames>>

createPolicy(callers) ==
  /\ TopLevel
  /\ nextPolicyId <= MaxPolicies
  /\ \E sender \in callers, _policyholder \in Holders,
        t \in NewPolicyTerms, _duration \in NewDurations :
       IF sender # registryAdmin
         THEN /\ last' = Call("createPolicy", sender, 0, "Only admin")
              /\ UNCHANGED <<policies, nextPolicyId>>
         ELSE /\ policies' = [policies EXCEPT ![nextPolicyId] =
                   [policyId |-> nextPolicyId, policyholder |-> _policyholder,
                    premium |-> t[1], coverage |-> t[2], deductible |-> t[3],
                    policyType |-> "auto", startDate |-> now,
                    endDate |-> now + _duration, isActive |-> TRUE,
                    claimsCount |-> 0, totalPayouts |-> 0]]
              /\ nextPolicyId' = nextPolicyId + 1
              /\ last' = Call("createPolicy", sender, nextPolicyId, "")
  /\ UNCHANGED <<claimsProcessor, processorVars, payoutVars, now, price, frames>>

\* the two guards shared by updatePolicy, cancelPolicy, incrementClaimCount
\* and recordPayout
policyGuard(_policyId, inactiveMessage) ==
  IF ~policyExists(_policyId) THEN "Policy does not exist"
  ELSE IF ~policies[_policyId].isActive THEN inactiveMessage
  ELSE ""

updatePolicy(callers) ==
  /\ TopLevel
  /\ \E sender \in callers, _policyId \in PolicyIds, t \in PolicyTerms,
        _duration \in Durations :
       LET err == IF sender # registryAdmin THEN "Only admin"
                  ELSE policyGuard(_policyId, "Policy is not active")
       IN
       /\ err = "" => policies[_policyId].endDate + _duration <= MaxTime + 1
       /\ last' = Call("updatePolicy", sender, _policyId, err)
       /\ policies' =
            IF err # "" THEN policies
            ELSE [policies EXCEPT ![_policyId].premium = t[1],
                                  ![_policyId].coverage = t[2],
                                  ![_policyId].deductible = t[3],
                                  ![_policyId].endDate =
                                     IF _duration > 0 THEN @ + _duration ELSE @]
  /\ UNCHANGED <<nextPolicyId, claimsProcessor, processorVars, payoutVars, now,
                 price, frames>>

cancelPolicy(callers) ==
  /\ TopLevel
  /\ \E sender \in callers, _policyId \in PolicyIds :
       LET err == IF sender # registryAdmin THEN "Only admin"
                  ELSE policyGuard(_policyId, "Policy is already inactive")
       IN
       /\ last' = Call("cancelPolicy", sender, _policyId, err)
       /\ policies' =
            IF err # "" THEN policies
            ELSE [policies EXCEPT ![_policyId].isActive = FALSE]
  /\ UNCHANGED <<nextPolicyId, claimsProcessor, processorVars, payoutVars, now,
                 price, frames>>

\* incrementClaimCount called by sender: [err, policies]
incrementClaimCount(sender, _policyId) ==
  LET err == IF sender # claimsProcessor THEN "Only claims processor"
             ELSE policyGuard(_policyId, "Policy is not active")
  IN  [err |-> err,
       policies |-> [policies EXCEPT ![_policyId].claimsCount = @ + 1]]

\* a recordPayout that does not ask whether the policy is active
recordPayoutOnInactive(sender, _policyId, _amount) ==
  LET err == IF sender # claimsProcessor THEN "Only claims processor"
             ELSE IF ~policyExists(_policyId) THEN "Policy does not exist"
             ELSE ""
  IN  [err |-> err,
       policies |-> [policies EXCEPT ![_policyId].totalPayouts = @ + _amount]]

\* recordPayout called by sender: [err, policies]
recordPayout(sender, _policyId, _amount) ==
  LET err == IF sender # claimsProcessor THEN "Only claims processor"
             ELSE policyGuard(_policyId, "Policy is not active")
  IN  [err |-> err,
       policies |-> [policies EXCEPT ![_policyId].totalPayouts = @ + _amount]]

\* the address registered as claims processor, or another account, calls
\* incrementClaimCount
CallIncrementClaimCount ==
  /\ TopLevel
  /\ \E sender \in {CP, "alice"}, _policyId \in PolicyIds :
       LET res == incrementClaimCount(sender, _policyId) IN
       /\ res.err = "" => policies[_policyId].claimsCount < MaxClaims
       /\ last' = Call("incrementClaimCount", sender, _policyId, res.err)
       /\ policies' = IF res.err = "" THEN res.policies ELSE policies
  /\ UNCHANGED <<nextPolicyId, claimsProcessor, processorVars, payoutVars, now,
                 price, frames>>

\* the address registered as claims processor, or another account, calls
\* recordPayout
CallRecordPayout ==
  /\ TopLevel
  /\ \E sender \in {CP, "alice"}, _policyId \in PolicyIds,
        _amount \in UsdAmounts :
       LET res == recordPayout(sender, _policyId, _amount) IN
       /\ res.err = "" =>
            policies[_policyId].totalPayouts + _amount <= MaxClaims
       /\ last' = Call("recordPayout", sender, _policyId, res.err)
       /\ policies' = IF res.err = "" THEN res.policies ELSE policies
  /\ UNCHANGED <<nextPolicyId, claimsProcessor, processorVars, payoutVars, now,
                 price, frames>>

\* a validity test that excludes the last second of the policy
isPolicyValidBeforeEnd(_policyId, _claimant) ==
  LET policy == policies[_policyId] IN
  /\ policy.policyId = _policyId
  /\ policy.policyholder = _claimant
  /\ policy.isActive
  /\ now >= policy.startDate
  /\ now < policy.endDate

isPolicyValidForClaims(_policyId, _claimant) ==
  LET policy == policies[_policyId] IN
  /\ policy.policyId = _policyId
  /\ policy.policyholder = _claimant
  /\ policy.isActive
  /\ now >= policy.startDate
  /\ now <= policy.endDate

(***************************************************************************)
(* ClaimsProcessor (src/contracts/ClaimsProcessor.sol)                     *)
(* The strings description and evidenceHashes are stored and never read;   *)
(* they are left out of the record.                                        *)
(***************************************************************************)
ClaimStatus == {"Submitted", "AIAnalyzed", "UnderReview", "Approved",
                "Rejected", "Paid"}

\* mapping(uint256 => Claim): an unwritten slot reads as all zeros, and the
\* zero of ClaimStatus is Submitted
NoClaim ==
  [claimId |-> 0, policyId |-> 0, claimant |-> ZERO, timestamp |-> 0,
   status |-> "Submitted", claimType |-> 0, severity |-> 0, fraudRisk |-> 0,
   recommendedPayout |-> 0, finalPayout |-> 0, processedAt |-> 0,
   requiresHumanReview |-> FALSE, assignedReviewer |-> ZERO]

admin == ADMIN             \* constructor: admin = msg.sender

ClaimTypes == {1}
Severities == {5}

setPayoutManager(callers) ==
  /\ TopLevel
  /\ \E sender \in callers, _payoutManager \in {ZERO, PM} :
       /\ last' = Call("setPayoutManager", sender, 0,
                       IF sender = admin THEN "" ELSE "Only admin")
       /\ payoutManager' = IF sender = admin THEN _payoutManager ELSE payoutManager
  /\ UNCHANGED <<registryVars, claims, nextClaimId, vrfRequestToClaim,
                 reviewers, activeReviewers, aiOracle, autoApproveThreshold,
                 autoRejectThreshold, nextRequestId, fulfilled, refused, payoutVars,
                 now, price, frames>>

setAIOracle(callers) ==
  /\ TopLevel
  /\ \E sender \in callers, _aiOracle \in {"admin", "bob"} :
       /\ last' = Call("setAIOracle", sender, 0,
                       IF sender = admin THEN "" ELSE "Only admin")
       /\ aiOracle' = IF sender = admin THEN _aiOracle ELSE aiOracle
  /\ UNCHANGED <<registryVars, claims, nextClaimId, vrfRequestToClaim,
                 reviewers, activeReviewers, payoutManager,
                 autoApproveThreshold, autoRejectThreshold, nextRequestId,
                 fulfilled, refused, payoutVars, now, price, frames>>

addReviewerFrom(callers, pool) ==
  /\ TopLevel
  /\ \E sender \in callers, _reviewer \in pool :
       LET err == IF sender # admin THEN "Only admin"
                  ELSE IF reviewers[_reviewer] THEN "Already a reviewer"
                  ELSE ""
       IN
       /\ last' = Call("addReviewer", sender, 0, err)
       /\ IF err = ""
            THEN /\ reviewers' = [reviewers EXCEPT ![_reviewer] = TRUE]
                 /\ activeReviewers' = Append(activeReviewers, _reviewer)
            ELSE UNCHANGED <<reviewers, activeReviewers>>
  /\ UNCHANGED <<registryVars, claims, nextClaimId, vrfRequestToClaim,
                 payoutManager, aiOracle, autoApproveThreshold,
                 autoRejectThreshold, nextRequestId, fulfilled, refused, payoutVars,
                 now, price, frames>>

addReviewer(callers) == addReviewerFrom(callers, Reviewers)

\* a removal that pops the last element without moving it
removeLast(list, _reviewer, i) == SubSeq(list, 1, Len(list) - 1)

\* the loop of removeReviewer: the first index holding _reviewer is
\* overwritten with the last element, and the last element is popped
RECURSIVE removeFrom(_, _, _)
removeFrom(list, _reviewer, i) ==
  IF i > Len(list) THEN list
  ELSE IF list[i] = _reviewer
    THEN SubSeq([list EXCEPT ![i] = list[Len(list)]], 1, Len(list) - 1)
    ELSE removeFrom(list, _reviewer, i + 1)

removeReviewerFrom(callers, pool) ==
  /\ TopLevel
  /\ \E sender \in callers, _reviewer \in pool :
       LET err == IF sender # admin THEN "Only admin"
                  ELSE IF ~reviewers[_reviewer] THEN "Not a reviewer"
                  ELSE ""
       IN
       /\ last' = Call("removeReviewer", sender, 0, err)
       /\ IF err = ""
            THEN /\ reviewers' = [reviewers EXCEPT ![_reviewer] = FALSE]
                 /\ activeReviewers' = removeFrom(activeReviewers, _reviewer, 1)
            ELSE UNCHANGED <<reviewers, activeReviewers>>
  /\ UNCHANGED <<registryVars, claims, nextClaimId, vrfRequestToClaim,
                 payoutManager, aiOracle, autoApproveThreshold,
                 autoRejectThreshold, nextRequestId, fulfilled, refused, payoutVars,
                 now, price, frames>>

removeReviewer(callers) == removeReviewerFrom(callers, Reviewers)

\* a test that also accepts equal thresholds
validThresholdsInclusive(_autoApprove, _autoReject) ==
  _autoApprove <= _autoReject

\* require(_autoApprove < _autoReject, "Invalid thresholds")
validThresholds(_autoApprove, _autoReject) == _autoApprove < _autoReject

setThresholds(callers, pairs) ==
  /\ TopLevel
  /\ \E sender \in callers, t \in pairs :
       LET err == IF sender # admin THEN "Only admin"
                  ELSE IF ~validThresholds(t[1], t[2]) THEN "Invalid thresholds"
                  ELSE ""
       IN
       /\ last' = Call("setThresholds", sender, 0, err)
       /\ autoApproveThreshold' = IF err = "" THEN t[1] ELSE autoApproveThreshold
       /\ autoRejectThreshold' = IF err = "" THEN t[2] ELSE autoRejectThreshold
  /\ UNCHANGED <<registryVars, claims, nextClaimId, vrfRequestToClaim,
                 reviewers, activeReviewers, payoutManager, aiOracle,
                 nextRequestId, fulfilled, refused, payoutVars, now, price, frames>>

\* the error of submitClaim(_policyId, ...) called by sender
submitGuard(sender, _policyId) ==
  IF ~isPolicyValidForClaims(_policyId, sender) THEN "Invalid policy"
  ELSE incrementClaimCount(CP, _policyId).err

submitClaim(callers, limit) ==
  /\ TopLevel
  /\ nextClaimId <= limit
  /\ \E sender \in callers, _policyId \in PolicyIds :
       LET claimId == nextClaimId
           inc == incrementClaimCount(CP, _policyId)
           err == submitGuard(sender, _policyId)
       IN
       /\ last' = Call("submitClaim", sender, _policyId, err)
       /\ IF err = ""
            THEN /\ nextClaimId' = nextClaimId + 1
                 /\ claims' = [claims EXCEPT ![claimId] =
                      [NoClaim EXCEPT !.claimId = claimId,
                                      !.policyId = _policyId,
                                      !.claimant = sender,
                                      !.timestamp = now]]
                 /\ policies' = inc.policies
            ELSE UNCHANGED <<nextClaimId, claims, policies>>
  /\ UNCHANGED <<nextPolicyId, claimsProcessor, vrfRequestToClaim, reviewers,
                 activeReviewers, payoutManager, aiOracle,
                 autoApproveThreshold, autoRejectThreshold, nextRequestId,
                 fulfilled, refused, payoutVars, now, price, frames>>

\* the result of _approveClaim when it changes nothing but the claims
Untouched(cl, err) ==
  [err |-> err, claims |-> cl, payouts |-> payouts, balances |-> balances,
   availableFunds |-> availableFunds, totalPayouts |-> totalPayouts,
   credited |-> credited, policies |-> policies]

\* _approveClaim keeping the approval when the payout step fails
settleIgnoringFailure(cl, approved, _claimId, pp, rp) ==
  IF payoutManager = ZERO \/ pp.err # "" \/ rp.err # ""
    THEN Untouched(approved, "")
    ELSE [err |-> "",
          claims |-> [approved EXCEPT ![_claimId].status = "Paid"],
          payouts |-> pp.payouts, balances |-> pp.balances,
          availableFunds |-> pp.availableFunds,
          totalPayouts |-> pp.totalPayouts, credited |-> pp.credited,
          policies |-> rp.policies]

\* _approveClaim marking the claim Paid whether or not a payout was made
settlePaidUnfunded(cl, approved, _claimId, pp, rp) ==
  IF payoutManager = ZERO
    THEN Untouched([approved EXCEPT ![_claimId].status = "Paid"], "")
  ELSE IF pp.err # "" THEN Untouched(cl, pp.err)
  ELSE IF rp.err # "" THEN Untouched(cl, rp.err)
  ELSE [err |-> "",
        claims |-> [approved EXCEPT ![_claimId].status = "Paid"],
        payouts |-> pp.payouts, balances |-> pp.balances,
        availableFunds |-> pp.availableFunds,
        totalPayouts |-> pp.totalPayouts, credited |-> pp.credited,
        policies |-> rp.policies]

\* _approveClaim paying the claim without recording it in the policy
settleUnrecorded(cl, approved, _claimId, pp, rp) ==
  IF payoutManager = ZERO THEN Untouched(approved, "")
  ELSE IF pp.err # "" THEN Untouched(cl, pp.err)
  ELSE IF rp.err # "" THEN Untouched(cl, rp.err)
  ELSE [err |-> "",
        claims |-> [approved EXCEPT ![_claimId].status = "Paid"],
        payouts |-> pp.payouts, balances |-> pp.balances,
        availableFunds |-> pp.availableFunds,
        totalPayouts |-> pp.totalPayouts, credited |-> pp.credited,
        policies |-> policies]

\* the second half of _approveClaim: pp and rp are the results of
\* payoutManager.processPayout and policyRegistry.recordPayout
settle(cl, approved, _claimId, pp, rp) ==
  IF payoutManager = ZERO THEN Untouched(approved, "")
  ELSE IF pp.err # "" THEN Untouched(cl, pp.err)
  ELSE IF rp.err # "" THEN Untouched(cl, rp.err)
  ELSE [err |-> "",
        claims |-> [approved EXCEPT ![_claimId].status = "Paid"],
        payouts |-> pp.payouts, balances |-> pp.balances,
        availableFunds |-> pp.availableFunds,
        totalPayouts |-> pp.totalPayouts, credited |-> pp.credited,
        policies |-> rp.policies]

\* an approval that pays the oracle that reported the claim
approveClaimToOracle(cl, _claimId, _payout) ==
  settle(cl,
         [cl EXCEPT ![_claimId].status = "Approved",
                    ![_claimId].finalPayout = _payout,
                    ![_claimId].processedAt = now],
         _claimId,
         processPayout(CP, _claimId, aiOracle, _payout),
         recordPayout(CP, cl[_claimId].policyId, _payout))

\* _approveClaim on the claims cl: [err, claims, payouts, balances,
\* availableFunds, totalPayouts, credited, policies]
approveClaim(cl, _claimId, _payout) ==
  settle(cl,
         [cl EXCEPT ![_claimId].status = "Approved",
                    ![_claimId].finalPayout = _payout,
                    ![_claimId].processedAt = now],
         _claimId,
         processPayout(CP, _claimId, cl[_claimId].claimant, _payout),
         recordPayout(CP, cl[_claimId].policyId, _payout))

\* the branches taken with inclusive comparisons
routeInclusive(_fraudRisk, _recommendedPayout) ==
  IF _fraudRisk <= autoApproveThreshold /\ _recommendedPayout > 0 THEN "approve"
  ELSE IF _fraudRisk >= autoRejectThreshold THEN "reject"
  ELSE "review"

\* the branch submitAIAnalysis takes
route(_fraudRisk, _recommendedPayout) ==
  IF _fraudRisk < autoApproveThreshold /\ _recommendedPayout > 0 THEN "approve"
  ELSE IF _fraudRisk > autoRejectThreshold THEN "reject"
  ELSE "review"

\* a review request that does not look at the reviewer list
requestWithoutReviewers(cl, _claimId) ==
  [err |-> "", claims |-> [cl EXCEPT ![_claimId].status = "UnderReview"]]

\* _requestRandomReviewer on the claims cl: [err, claims]
requestRandomReviewer(cl, _claimId) ==
  IF ~(Len(activeReviewers) > 0)
    THEN [err |-> "No active reviewers", claims |-> cl]
    ELSE [err |-> "", claims |-> [cl EXCEPT ![_claimId].status = "UnderReview"]]

\* the effects of an approval, applied when the call did not revert
Apply(res) ==
  /\ claims' = res.claims
  /\ payouts' = res.payouts
  /\ balances' = res.balances
  /\ availableFunds' = res.availableFunds
  /\ totalPayouts' = res.totalPayouts
  /\ credited' = res.credited
  /\ policies' = res.policies

\* a guard that refuses only the claims that are settled
analysisGuardUnsettled(sender, _claimId) ==
  IF sender # aiOracle THEN "Only AI oracle"
  ELSE IF claims[_claimId].status \in {"Approved", "Rejected", "Paid"}
    THEN "Invalid status"
  ELSE ""

\* onlyAIOracle and the status requirement of submitAIAnalysis
analysisGuard(sender, _claimId) ==
  IF sender # aiOracle THEN "Only AI oracle"
  ELSE IF claims[_claimId].status # "Submitted" THEN "Invalid status"
  ELSE ""

submitAIAnalysis(callers, ids, risks, amounts) ==
  /\ TopLevel
  /\ \E sender \in callers, _claimId \in ids,
        _claimType \in ClaimTypes,
        _severity \in Severities, _fraudRisk \in risks,
        _recommendedPayout \in amounts :
       LET analyzed == [claims EXCEPT ![_claimId].claimType = _claimType,
                                      ![_claimId].severity = _severity,
                                      ![_claimId].fraudRisk = _fraudRisk,
                                      ![_claimId].recommendedPayout = _recommendedPayout,
                                      ![_claimId].status = "AIAnalyzed"]
           branch == route(_fraudRisk, _recommendedPayout)
           ap == approveClaim(analyzed, _claimId, _recommendedPayout)
           rq == requestRandomReviewer(
                   [analyzed EXCEPT ![_claimId].requiresHumanReview = TRUE],
                   _claimId)
           guard == analysisGuard(sender, _claimId)
           err == IF guard # "" THEN guard
                  ELSE IF branch = "approve" THEN ap.err
                  ELSE IF branch = "reject" THEN ""
                  ELSE rq.err
       IN
       /\ err = "" /\ branch = "review" => nextRequestId <= MaxRequests
       /\ last' = Call("submitAIAnalysis", sender, _claimId, err)
       /\ refused' = IF guard = "" /\ err # ""
                       THEN [refused EXCEPT ![_claimId] = err] ELSE refused
       /\ IF err # ""
            THEN UNCHANGED <<claims, payouts, balances, availableFunds,
                             totalPayouts, credited, policies,
                             vrfRequestToClaim, nextRequestId>>
          ELSE IF branch = "approve"
            THEN /\ Apply(ap)
                 /\ UNCHANGED <<vrfRequestToClaim, nextRequestId>>
          ELSE IF branch = "reject"
            THEN /\ claims' = [analyzed EXCEPT ![_claimId].status = "Rejected",
                                               ![_claimId].processedAt = now]
                 /\ UNCHANGED <<payouts, balances, availableFunds, totalPayouts,
                                credited, policies, vrfRequestToClaim,
                                nextRequestId>>
          ELSE /\ claims' = rq.claims
               /\ vrfRequestToClaim' =
                    [vrfRequestToClaim EXCEPT ![nextRequestId] = _claimId]
               /\ nextRequestId' = nextRequestId + 1
               /\ UNCHANGED <<payouts, balances, availableFunds, totalPayouts,
                              credited, policies>>
  /\ UNCHANGED <<nextPolicyId, claimsProcessor, nextClaimId, reviewers,
                 activeReviewers, payoutManager, aiOracle,
                 autoApproveThreshold, autoRejectThreshold, fulfilled,
                 totalWithdrawn, treasury, pmBalance, deposited, swept,
                 transferred, now, price, frames>>

\* the guards of reviewerApproveClaim and reviewerRejectClaim
reviewerGuard(sender, _claimId) ==
  IF ~reviewers[sender] THEN "Only reviewer"
  ELSE IF claims[_claimId].status # "UnderReview" THEN "Invalid status"
  ELSE IF claims[_claimId].assignedReviewer # sender THEN "Not assigned reviewer"
  ELSE ""

reviewerApproveClaim(callers, ids, amounts) ==
  /\ TopLevel
  /\ \E sender \in callers, _claimId \in ids, _payout \in amounts :
       LET ap == approveClaim(claims, _claimId, _payout)
           err == IF reviewerGuard(sender, _claimId) # ""
                    THEN reviewerGuard(sender, _claimId) ELSE ap.err
       IN
       /\ last' = Call("reviewerApproveClaim", sender, _claimId, err)
       /\ refused' = IF reviewerGuard(sender, _claimId) = "" /\ ap.err # ""
                       THEN [refused EXCEPT ![_claimId] = ap.err] ELSE refused
       /\ IF err = "" THEN Apply(ap)
          ELSE UNCHANGED <<claims, payouts, balances, availableFunds,
                           totalPayouts, credited, policies>>
  /\ UNCHANGED <<nextPolicyId, claimsProcessor, nextClaimId, vrfRequestToClaim,
                 reviewers, activeReviewers, payoutManager, aiOracle,
                 autoApproveThreshold, autoRejectThreshold, nextRequestId,
                 fulfilled, totalWithdrawn, treasury, pmBalance, deposited,
                 swept, transferred, now, price, frames>>

reviewerRejectClaim(callers, ids) ==
  /\ TopLevel
  /\ \E sender \in callers, _claimId \in ids :
       LET err == reviewerGuard(sender, _claimId) IN
       /\ last' = Call("reviewerRejectClaim", sender, _claimId, err)
       /\ claims' = IF err # "" THEN claims
                    ELSE [claims EXCEPT ![_claimId].status = "Rejected",
                                        ![_claimId].processedAt = now]
  /\ UNCHANGED <<registryVars, nextClaimId, vrfRequestToClaim, reviewers,
                 activeReviewers, payoutManager, aiOracle,
                 autoApproveThreshold, autoRejectThreshold, nextRequestId,
                 fulfilled, refused, payoutVars, now, price, frames>>

\* a selection that drops the lowest bit of the random word
selectReviewerHalved(randomWord) ==
  IF Len(activeReviewers) = 0 THEN admin
  ELSE activeReviewers[((randomWord \div 2) % Len(activeReviewers)) + 1]

\* a selection that leaves the claim unassigned when nobody is enrolled
selectReviewerNoFallback(randomWord) ==
  IF Len(activeReviewers) = 0 THEN ZERO
  ELSE activeReviewers[(randomWord % Len(activeReviewers)) + 1]

\* the reviewer fulfillRandomWords selects
selectReviewer(randomWord) ==
  IF Len(activeReviewers) = 0 THEN admin
  ELSE activeReviewers[(randomWord % Len(activeReviewers)) + 1]

\* whether fulfillRandomWords acts on the request
acceptsFulfillment(requestId) == vrfRequestToClaim[requestId] > 0

\* the VRF coordinator delivers the random word of a request
fulfillRandomWords(words) ==
  /\ TopLevel
  /\ \E requestId \in RequestIds, randomWord \in words :
       LET claimId == vrfRequestToClaim[requestId] IN
       IF ~acceptsFulfillment(requestId)
         THEN /\ last' = Call("fulfillRandomWords", ZERO, requestId, "Claim not found")
              /\ UNCHANGED <<claims, fulfilled>>
         ELSE /\ claims' = [claims EXCEPT ![claimId].assignedReviewer =
                                             selectReviewer(randomWord)]
              /\ fulfilled' = fulfilled \cup {requestId}
              /\ last' = Call("fulfillRandomWords", ZERO, requestId, "")
  /\ UNCHANGED <<registryVars, nextClaimId, vrfRequestToClaim, reviewers,
                 activeReviewers, payoutManager, aiOracle,
                 autoApproveThreshold, autoRejectThreshold, nextRequestId,
                 refused, payoutVars, now, price, frames>>

(***************************************************************************)
(* The system after deployment: the three constructors have run, nothing   *)
(* is wired or funded yet.                                                 *)
(***************************************************************************)
Init ==
  /\ policies = [i \in PolicyIds |-> NoPolicy]
  /\ nextPolicyId = 1
  /\ claimsProcessor = ZERO
  /\ claims = [i \in ClaimIds |-> NoClaim]
  /\ nextClaimId = 1
  /\ vrfRequestToClaim = [r \in RequestIds |-> 0]
  /\ reviewers = [a \in Address |-> FALSE]
  /\ activeReviewers = << >>
  /\ payoutManager = ZERO
  /\ aiOracle = admin
  /\ autoApproveThreshold = 20
  /\ autoRejectThreshold = 70
  /\ payouts = [i \in ClaimIds |-> NoPayout]
  /\ balances = [a \in Address |-> 0]
  /\ totalPayouts = 0
  /\ totalWithdrawn = 0
  /\ availableFunds = 0
  /\ treasury = pmAdmin
  /\ now = 1
  /\ price = Quote(2000000000)
  /\ pmBalance = 0
  /\ nextRequestId = 1
  /\ frames = << >>
  /\ last = Call("constructor", ADMIN, 0, "")
  /\ deposited = 0
  /\ swept = 0
  /\ credited = [a \in Address |-> 0]
  /\ transferred = [a \in Address |-> 0]
  /\ fulfilled = {}
  /\ refused = [i \in ClaimIds |-> ""]

\* the system after the deployment script: the contracts are wired, the
\* deployer is the first reviewer and has funded the pool
DeployedAt(quote) ==
  /\ policies = [i \in PolicyIds |-> NoPolicy]
  /\ nextPolicyId = 1
  /\ claimsProcessor = CP
  /\ claims = [i \in ClaimIds |-> NoClaim]
  /\ nextClaimId = 1
  /\ vrfRequestToClaim = [r \in RequestIds |-> 0]
  /\ reviewers = [a \in Address |-> a = admin]
  /\ activeReviewers = <<admin>>
  /\ payoutManager = PM
  /\ aiOracle = admin
  /\ autoApproveThreshold = 20
  /\ autoRejectThreshold = 70
  /\ payouts = [i \in ClaimIds |-> NoPayout]
  /\ balances = [a \in Address |-> 0]
  /\ totalPayouts = 0
  /\ totalWithdrawn = 0
  /\ availableFunds = 10000000
  /\ treasury = pmAdmin
  /\ now = 1
  /\ price = quote
  /\ pmBalance = 10000000
  /\ nextRequestId = 1
  /\ frames = << >>
  /\ last = Call("receive", ADMIN, 0, "")
  /\ deposited = 10000000
  /\ swept = 0
  /\ credited = [a \in Address |-> 0]
  /\ transferred = [a \in Address |-> 0]
  /\ fulfilled = {}
  /\ refused = [i \in ClaimIds |-> ""]

\* the deployed system at the quote of 20 USD
Deployed == DeployedAt(Quote(2000000000))

\* the PayoutManager on its own, driven by the address registered as its
\* claims processor
NextPayout ==
  \/ CallProcessPayout
  \/ deposit
  \/ receive
  \/ withdraw
  \/ transferReturns
  \/ withdrawToTreasury(AdminCallers)
  \/ setTreasury(AdminCallers)
  \/ newPrice(PriceQuotes)

SpecPayout == Init /\ [][NextPayout]_vars

\* the deployed system: ClaimsProcessor is the only caller of processPayout
LiveClaims == 1..MaxLiveClaims

Next ==
  \/ createPolicy({ADMIN})
  \/ cancelPolicy({ADMIN})
  \/ setPayoutManager({ADMIN})
  \/ submitClaim(Holders, MaxLiveClaims)
  \/ submitAIAnalysis({ADMIN}, LiveClaims, FraudRisks, UsdAmounts)
  \/ reviewerApproveClaim({ADMIN}, LiveClaims, UsdAmounts)
  \/ reviewerRejectClaim({ADMIN}, LiveClaims)
  \/ fulfillRandomWords(RandomWords)
  \/ deposit
  \/ newPrice(LivePrices)

Spec == Deployed /\ [][Next]_vars

\* the routing of risk reports: every fraud risk of the documented range,
\* under thresholds the admin moves over the whole range
RoutingRisks    == 0..100
RoutingPairs    == {<<20, 70>>, <<0, 100>>, <<70, 71>>, <<19, 20>>, <<70, 20>>}
RoutingPayouts  == {0, 1}

NextRouting ==
  \/ setThresholds({ADMIN}, RoutingPairs)
  \/ createPolicy({ADMIN})
  \/ submitClaim(Holders, MaxLiveClaims)
  \/ submitAIAnalysis({ADMIN}, LiveClaims, RoutingRisks, RoutingPayouts)

SpecRouting == Deployed /\ [][NextRouting]_vars

\* the assignment of reviewers: the admin changes the reviewer list while
\* claims wait for their random word
ReviewRisks == {20, 71}

NextReview ==
  \/ addReviewer({ADMIN})
  \/ removeReviewer({ADMIN})
  \/ createPolicy({ADMIN})
  \/ submitClaim(Holders, MaxClaims)
  \/ submitAIAnalysis({ADMIN}, ClaimIds \ {0}, ReviewRisks, {1})
  \/ reviewerApproveClaim(Accounts, ClaimIds \ {0}, {1})
  \/ reviewerRejectClaim(Accounts, ClaimIds \ {0})
  \/ fulfillRandomWords(RandomWords)

SpecReview == Deployed /\ [][NextReview]_vars

(***************************************************************************)
(* The end-to-end script: a policy is created, its holder files a claim,   *)
(* the oracle reports it with the script's fraud risk and payout, and the  *)
(* holder withdraws.  The admin may cancel the policy or sweep the pool    *)
(* and the feed may report an invalid answer in between.                   *)
(***************************************************************************)
ScriptPrices == ScriptQuotes \cup {Quote(0)}

NextScript ==
  \/ createPolicy({ADMIN})
  \/ cancelPolicy({ADMIN})
  \/ submitClaim(Holders, MaxLiveClaims)
  \/ submitAIAnalysis({ADMIN}, LiveClaims, ScriptRisks, ScriptPayouts)
  \/ withdraw
  \/ transferReturns
  \/ deposit
  \/ withdrawToTreasury({ADMIN})
  \/ newPrice(ScriptPrices)

\* the deployed system at the quote of the script
ScriptDeployed == \E quote \in ScriptQuotes : DeployedAt(quote)

SpecScript == ScriptDeployed /\ [][NextScript]_vars

(***************************************************************************)
(* Filing: the admin creates and cancels the policy, time passes,          *)
(* the holder and another account file claims, and the oracle reports on   *)
(* claim ids, filed or not.                                                *)
(***************************************************************************)
Claimants == {"alice", "bob"}
FilingRisks == {19, 71}

NextFiling ==
  \/ createPolicy({ADMIN})
  \/ cancelPolicy({ADMIN})
  \/ tick
  \/ submitClaim(Claimants, MaxClaims)
  \/ submitAIAnalysis({ADMIN}, ClaimIds \ {0}, FilingRisks, {1})

SpecFiling == Deployed /\ [][NextFiling]_vars

(***************************************************************************)
(* The conversion on its own: the feed reports an answer, anyone converts  *)
(* an amount.                                                              *)
(***************************************************************************)
NextConvert ==
  \/ newPrice(ConvertQuotes)
  \/ CallConvert(ConvertAmounts)

SpecConvert == Init /\ [][NextConvert]_vars

(***************************************************************************)
(* The coordinator answers every request it accepted: the callback of an   *)
(* issued request that was not delivered yet stays enabled until it is     *)
(* delivered, and is eventually delivered.                                 *)
(***************************************************************************)
Delivers(requestId) ==
  fulfillRandomWords(RandomWords) /\ requestId \in fulfilled' \ fulfilled

SpecAssignment ==
  SpecReview /\ \A requestId \in RequestIds : WF_vars(Delivers(requestId))

(***************************************************************************)
(* Reviewer selection: every account can be enrolled, in every order, and  *)
(* the coordinator delivers every random word of MaxRounds rounds over the *)
(* longest list.                                                           *)
(***************************************************************************)
SelectionWords == 0..(MaxRounds * Cardinality(Accounts) - 1)

NextSelection ==
  \/ addReviewerFrom({ADMIN}, Accounts)
  \/ removeReviewerFrom({ADMIN}, Accounts)
  \/ createPolicy({ADMIN})
  \/ submitClaim(Holders, MaxLiveClaims)
  \/ submitAIAnalysis({ADMIN}, LiveClaims, {20}, {1})
  \/ fulfillRandomWords(SelectionWords)

SpecSelection == Deployed /\ [][NextSelection]_vars

(***************************************************************************)
(* Risk reports: every account calls submitAIAnalysis on every claim id    *)
(* while the admin moves the oracle role and sets or unsets the payout     *)
(* manager.                                                                *)
(***************************************************************************)
ReportPayouts == {1, 2}

NextReport ==
  \/ createPolicy({ADMIN})
  \/ setAIOracle({ADMIN})
  \/ setPayoutManager({ADMIN})
  \/ submitClaim(Holders, MaxClaims)
  \/ submitAIAnalysis(Accounts, ClaimIds \ {0}, FraudRisks, ReportPayouts)

SpecReport == Deployed /\ [][NextReport]_vars

(***************************************************************************)
(* Thresholds: the admin and another account call setThresholds with every *)
(* pair of the values below, valid or not, while claims are filed and      *)
(* reported.                                                               *)
(***************************************************************************)
ThresholdValues == {0, 20, 70, 100, 101, 255}    \* uint8
ThresholdPairs  == ThresholdValues \X ThresholdValues
ThresholdRisks  == {0, 20, 70, 100}

NextThresholds ==
  \/ setThresholds(AdminCallers, ThresholdPairs)
  \/ createPolicy({ADMIN})
  \/ submitClaim(Holders, MaxLiveClaims)
  \/ submitAIAnalysis({ADMIN}, LiveClaims, ThresholdRisks, {1})

SpecThresholds == Deployed /\ [][NextThresholds]_vars

(***************************************************************************)
(* The PolicyRegistry driven by its admin, by the address registered as    *)
(* its claims processor and by other accounts, on created and on           *)
(* never-created policy ids, with the holder and another account filing    *)
(* claims through the ClaimsProcessor.                                     *)
(***************************************************************************)
NextRegistry ==
  \/ setClaimsProcessor(AdminCallers)
  \/ createPolicy(AdminCallers)
  \/ updatePolicy(AdminCallers)
  \/ cancelPolicy(AdminCallers)
  \/ CallIncrementClaimCount
  \/ CallRecordPayout
  \/ submitClaim(Claimants, MaxClaims)
  \/ tick

SpecRegistry == Init /\ [][NextRegistry]_vars

(***************************************************************************)
(* The ledgers of the three contracts: several claims are filed, reported, *)
(* reviewed and paid at the price of the moment.                           *)
(***************************************************************************)
LedgerRisks   == {19, 20}
LedgerPayouts == {1, 2}
LedgerPrices  == {Quote(1000000000), Quote(2000000000)}

NextLedger ==
  \/ createPolicy({ADMIN})
  \/ submitClaim(Holders, MaxClaims)
  \/ submitAIAnalysis({ADMIN}, ClaimIds \ {0}, LedgerRisks, LedgerPayouts)
  \/ reviewerApproveClaim({ADMIN}, ClaimIds \ {0}, LedgerPayouts)
  \/ fulfillRandomWords({0})
  \/ deposit
  \/ newPrice(LedgerPrices)

SpecLedger == Deployed /\ [][NextLedger]_vars

(***************************************************************************)
(* Properties of PayoutManager, checked under SpecPayout.                  *)
(***************************************************************************)
PaidClaimIds == ClaimIds \ {0}    \* ClaimsProcessor numbers claims from 1

\* C1: a claim id has at most one Payout record.  Once a payout has been
\* processed for a claim id, every processPayout for that id by the claims
\* processor, for any recipient and amount, fails with "Payout already
\* processed"; a failing processPayout changes no Payout record, balance,
\* pool or total; and a processed record is never written again.
C1_DuplicatePayoutRejected ==
  /\ [](\A c \in PaidClaimIds, r \in Accounts, u \in UsdAmounts :
          payouts[c].processed =>
            processPayout(pmClaimsProcessor, c, r, u).err
              = "Payout already processed")
  /\ [][/\ last'.op = "processPayout" /\ last'.err # ""
           => UNCHANGED payoutVars
        /\ \A c \in PaidClaimIds :
             payouts[c].processed => payouts'[c] = payouts[c]]_vars

\* a second processPayout for a paid claim id has been attempted
C1_Witness ==
  /\ last = Call("processPayout", pmClaimsProcessor, 0,
                 "Payout already processed")
  /\ \E c \in PaidClaimIds : payouts[c].processed

\* a call of withdraw by a, at top level or nested, that has run up to its
\* revert or its value transfer
WithdrawCalledBy(a) ==
  /\ last'.op \in {"withdraw", "transfer"}
  /\ last'.who = a
  /\ Len(frames') >= Len(frames)

\* C2: while the value transfer of withdraw(caller) is pending, the stored
\* balance of the caller is zero and every nested withdraw by that caller,
\* at any depth, fails with "No balance to withdraw" and changes nothing; in
\* every state, pending transfers included, the value sent to a recipient
\* is at most the value processPayout credited to it.
C2_ReentrantWithdrawPaysOnce ==
  /\ [](\A a \in Accounts : transferred[a] <= credited[a])
  /\ [](\A i \in 1..Len(frames) : balances[frames[i].caller] = 0)
  /\ [][\A i \in 1..Len(frames) :
          WithdrawCalledBy(frames[i].caller)
            => /\ last'.err = "No balance to withdraw"
               /\ UNCHANGED <<payoutVars, frames>>]_vars

\* the caller of a pending withdraw has re-entered withdraw, after a second
\* account re-entered it and was paid
C2_Witness ==
  /\ Len(frames) > 1
  /\ last = Call("withdraw", frames[1].caller, 0, "No balance to withdraw")
  /\ \A i \in 1..Len(frames) : transferred[frames[i].caller] > 0

RECURSIVE Sum(_, _)
Sum(f, S) ==
  IF S = {} THEN 0
  ELSE LET a == CHOOSE x \in S : TRUE IN f[a] + Sum(f, S \ {a})

\* C3: in every state, the states between the zeroing of the balance and
\* the update of totalWithdrawn included, the sum of the withdrawable
\* balances plus totalWithdrawn is at most totalPayouts.
C3_BalanceConservation ==
  Sum(balances, Address) + totalWithdrawn <= totalPayouts

\* inside a withdraw, after the balance is zeroed and before totalWithdrawn
\* is updated, with another recipient still holding a balance
C3_Witness ==
  /\ frames # << >>
  /\ Sum(balances, Address) > 0
  /\ Sum(balances, Address) + totalWithdrawn < totalPayouts

\* C4, as stated: availableFunds = deposits - totalPayouts, never negative.
C4_PoolIsDepositsMinusPayouts ==
  /\ availableFunds = deposited - totalPayouts
  /\ availableFunds >= 0

\* C4, amended: availableFunds equals the deposits minus totalPayouts minus
\* the amounts withdrawToTreasury has sent to the treasury; it is never
\* negative; and processPayout fails with "Insufficient funds" whenever the
\* converted amount exceeds the pool.
C4_PoolAccounting ==
  /\ availableFunds = deposited - totalPayouts - swept
  /\ availableFunds >= 0
  /\ \A c \in PaidClaimIds, r \in Accounts, u \in UsdAmounts :
       LET conv == convertUSDToAVAX(u) IN
       (~payoutExists(c) /\ u > 0 /\ conv.err = ""
          /\ conv.value > availableFunds)
         => processPayout(pmClaimsProcessor, c, r, u).err = "Insufficient funds"

\* a payout larger than what is left of the pool has been refused, after a
\* payout and a sweep
C4_Witness ==
  /\ last = Call("processPayout", pmClaimsProcessor, 0, "Insufficient funds")
  /\ totalPayouts > 0
  /\ swept > 0
  /\ availableFunds > 0

\* C8: a withdraw by a caller whose balance is zero fails with "No balance
\* to withdraw" and changes nothing; a withdraw whose value transfer fails
\* ends with "Transfer failed" and leaves the balances, totalWithdrawn and
\* the contract's funds as they were when the call began.
C8_WithdrawErrors ==
  [][/\ \A a \in Accounts :
          balances[a] = 0 /\ WithdrawCalledBy(a)
            => /\ last'.err = "No balance to withdraw"
               /\ UNCHANGED <<payoutVars, frames>>
     /\ Len(frames') > Len(frames)
          => frames'[Len(frames')].saved =
               [balances |-> balances, totalWithdrawn |-> totalWithdrawn,
                pmBalance |-> pmBalance, transferred |-> transferred]
     /\ last'.op = "withdraw" /\ last'.err = "Transfer failed"
          => IF Len(frames') < Len(frames)
               THEN LET before == frames[Len(frames)].saved IN
                    /\ balances' = before.balances
                    /\ totalWithdrawn' = before.totalWithdrawn
                    /\ pmBalance' = before.pmBalance
                    /\ transferred' = before.transferred
               ELSE UNCHANGED <<payoutVars, frames>>]_vars

\* a withdraw of a positive balance has been rolled back because the
\* recipient refused the transfer
C8_Witness ==
  /\ frames = << >>
  /\ last.op = "withdraw" /\ last.err = "Transfer failed"
  /\ balances[last.who] > 0
  /\ pmBalance >= balances[last.who]
  /\ transferred[last.who] = 0

(***************************************************************************)
(* Properties of ClaimsProcessor.                                          *)
(***************************************************************************)
\* a successful submitAIAnalysis on claim c
Analysed(c) ==
  /\ last'.op = "submitAIAnalysis"
  /\ last'.err = ""
  /\ claims'[c] # claims[c]

Resolution(claim) ==
  <<claim.status, claim.finalPayout, claim.processedAt, claim.claimType,
    claim.severity, claim.fraudRisk, claim.recommendedPayout>>

\* C6, as stated: once claims[c].status is Rejected or Paid, no operation
\* changes the status, the final payout, the resolution time or the report
\* fields stored under that claim id.
C6_TerminalClaimsFrozen ==
  [][\A c \in LiveClaims :
       claims[c].status \in {"Rejected", "Paid"}
         => Resolution(claims'[c]) = Resolution(claims[c])]_vars

\* the status changes the lifecycle allows
StatusEdges ==
  ({"Submitted"} \X {"Approved", "Paid", "Rejected", "UnderReview"})
    \cup ({"UnderReview"} \X {"Approved", "Paid", "Rejected"})

\* C7, as stated: every change of claims[c].status is an edge of the
\* one-directional graph Submitted -> {Approved, Paid, Rejected,
\* UnderReview}, UnderReview -> {Approved, Paid, Rejected}.
C7_StatusOneDirectional ==
  [][\A c \in LiveClaims :
       claims'[c].status # claims[c].status
         => <<claims[c].status, claims'[c].status>> \in StatusEdges]_vars

\* the errors of processPayout and recordPayout
PayoutStepErrors ==
  {"Only claims processor", "Payout already processed",
   "Amount must be positive", "Invalid price data", "Panic",
   "Insufficient funds", "Policy does not exist", "Policy is not active"}

\* claim c has become Paid in this step
BecomesPaid(c) == claims[c].status # "Paid" /\ claims'[c].status = "Paid"

\* C9: an approval is atomic.  A submitAIAnalysis or reviewerApproveClaim
\* that fails in processPayout or recordPayout changes no contract state:
\* the claim keeps its status and fields, and no Payout record, balance,
\* pool or policy total moves.  While a PayoutManager is set no claim
\* becomes Approved without being paid, and a claim becomes Paid together
\* with its Payout record, the credit of its claimant, the debit of the
\* pool and the policy's payout total, and nothing of these changes
\* otherwise.
C9_ApprovalAtomic ==
  [][/\ /\ last'.op \in {"submitAIAnalysis", "reviewerApproveClaim"}
        /\ last'.err \in PayoutStepErrors
        => UNCHANGED <<claims, policies, payouts, balances, totalPayouts,
                       availableFunds, credited, vrfRequestToClaim>>
     /\ refused' # refused
        => /\ last'.err \in PayoutStepErrors
           /\ \A c \in LiveClaims :
                refused'[c] # refused[c]
                  => /\ refused'[c] = last'.err
                     /\ claims[c].status \in {"Submitted", "UnderReview"}
     /\ \A c \in LiveClaims :
          /\ claims[c].status # "Approved" /\ claims'[c].status = "Approved"
               => payoutManager = ZERO
          /\ BecomesPaid(c)
               => LET claim == claims'[c] IN
                  /\ payouts[c] = NoPayout
                  /\ payouts'[c].processed
                  /\ payouts'[c].recipient = claim.claimant
                  /\ payouts'[c].usdAmount = claim.finalPayout
                  /\ payouts'[c].avaxAmount > 0
                  /\ balances'[claim.claimant] =
                       balances[claim.claimant] + payouts'[c].avaxAmount
                  /\ availableFunds' = availableFunds - payouts'[c].avaxAmount
                  /\ totalPayouts' = totalPayouts + payouts'[c].avaxAmount
                  /\ policies'[claim.policyId].totalPayouts =
                       policies[claim.policyId].totalPayouts + claim.finalPayout
     /\ (\E c \in LiveClaims : BecomesPaid(c))
          \/ UNCHANGED <<payouts, balances, totalPayouts, credited>>
     /\ (\E c \in LiveClaims : BecomesPaid(c))
          \/ \A i \in PolicyIds :
               policies'[i].totalPayouts = policies[i].totalPayouts]_vars

\* an approval that was refused for lack of funds has succeeded on a retry
\* after the pool was funded again
C9_Witness ==
  \E c \in LiveClaims :
    /\ refused[c] = "Insufficient funds"
    /\ claims[c].status = "Paid"
    /\ last.op \in {"submitAIAnalysis", "reviewerApproveClaim"}
    /\ last.err = ""
    /\ payouts[c].avaxAmount > 10000000
    /\ deposited >= payouts[c].avaxAmount

\* C10, as stated: a fulfilment of a request that has been fulfilled before
\* changes no field of any claim.
C10_FulfilmentIdempotent ==
  [][/\ last'.op = "fulfillRandomWords"
     /\ last'.err = ""
     /\ fulfilled' = fulfilled
     => claims' = claims]_vars

(***************************************************************************)
(* Reviewer assignment on fulfilment.                                      *)
(***************************************************************************)
\* the fulfilment step just taken was accepted
Fulfils == last'.op = "fulfillRandomWords" /\ last'.err = ""

\* the identities enrolled in the reviewer list
Enrolled == {activeReviewers[i] : i \in 1..Len(activeReviewers)}

\* the claims whose assignee the step just taken wrote: the target of a
\* request fulfilled for the first time, and any claim whose assignee changed
Assigns(c) ==
  \/ \E r \in fulfilled' \ fulfilled : vrfRequestToClaim[r] = c
  \/ claims'[c].assignedReviewer # claims[c].assignedReviewer

\* C11: every accepted fulfilment leaves the target claim with a non-null
\* assignedReviewer: the administrator when the reviewer list is empty at
\* that moment, and otherwise a member of the list as it stands at that
\* moment, whose reviewer flag is set (never an identity removed earlier).
\* Only fulfilment writes the assignee of an existing claim.
C11_AssigneeAfterFulfilment ==
  [][/\ Fulfils =>
          \A c \in ClaimIds : Assigns(c) =>
            /\ claims'[c].assignedReviewer # ZERO
            /\ IF activeReviewers = << >>
                 THEN claims'[c].assignedReviewer = admin
                 ELSE /\ claims'[c].assignedReviewer \in Enrolled
                      /\ reviewers[claims'[c].assignedReviewer]
     /\ \A c \in ClaimIds :
          /\ claims'[c].assignedReviewer # claims[c].assignedReviewer
          /\ claims'[c].assignedReviewer # ZERO
          => Fulfils
    ]_vars

\* a request made while a reviewer was enrolled was fulfilled after the list
\* had been emptied, and the claim went to the administrator
C11_Witness ==
  /\ last = Call("fulfillRandomWords", ZERO, 0, "")
  /\ activeReviewers = << >>
  /\ \E c \in ClaimIds \ {0} :
       /\ claims[c].claimId = c
       /\ claims[c].status = "UnderReview"
       /\ claims[c].assignedReviewer = admin
       /\ \E r \in fulfilled : vrfRequestToClaim[r] = c

(***************************************************************************)
(* Who may decide a claim under review.                                    *)
(***************************************************************************)
\* the claims that were filed and are under review
UnderReviewClaims ==
  {c \in ClaimIds \ {0} : claims[c].claimId = c /\ claims[c].status = "UnderReview"}

\* C12: for a claim under review, the guards of reviewerRejectClaim and
\* reviewerApproveClaim pass if and only if the caller is the identity
\* recorded as assignedReviewer, whether that identity is a listed reviewer,
\* the fallback administrator or a reviewer removed after the assignment.
C12_DecisionGatedByAssignment ==
  \A c \in UnderReviewClaims : \A a \in Accounts :
     reviewerGuard(a, c) = "" <=> a = claims[c].assignedReviewer

(***************************************************************************)
(* Uniform reviewer selection.                                             *)
(***************************************************************************)
\* how many of the random words 0..n-1 select reviewer a
Selections(a, n) == Cardinality({w \in 0..(n - 1) : selectReviewer(w) = a})

\* C13: with N >= 1 active reviewers the reviewer selected for random word w
\* is the element of activeReviewers at 0-based index w mod N, the assignee
\* a fulfilment records is such an element, and over the random words
\* 0..k*N-1 every active reviewer is selected exactly k times, whatever the
\* order in which reviewers were added and removed.
C13_UniformSelection ==
  /\ [](Len(activeReviewers) >= 1 =>
          /\ \A w \in SelectionWords :
               selectReviewer(w) = activeReviewers[(w % Len(activeReviewers)) + 1]
          /\ \A k \in 1..MaxRounds : \A a \in Accounts :
               Selections(a, k * Len(activeReviewers)) =
                 IF a \in Enrolled THEN k ELSE 0)
  /\ [][Fulfils /\ Len(activeReviewers) >= 1 =>
          \A c \in ClaimIds : Assigns(c) =>
             \E w \in SelectionWords :
                claims'[c].assignedReviewer =
                  activeReviewers[(w % Len(activeReviewers)) + 1]
       ]_vars

\* three reviewers are enrolled in an order produced by a removal, and a
\* fulfilment assigned a filed claim to the last of them
C13_Witness ==
  /\ activeReviewers = <<"bob", "alice", "admin">>
  /\ last = Call("fulfillRandomWords", ZERO, 0, "")
  /\ \E c \in UnderReviewClaims : claims[c].assignedReviewer = "admin"

(***************************************************************************)
(* The asynchronous request/fulfil pair.                                   *)
(***************************************************************************)
\* the request ids mapped to claim c
RequestsOf(c) == {r \in RequestIds : vrfRequestToClaim[r] = c}

\* C14: a claim routed to human review stays UnderReview with a null
\* assignedReviewer, unchanged by every operation other than a fulfilment;
\* when every issued request is eventually fulfilled, every claim that
\* enters UnderReview eventually has a non-null assignedReviewer; and each
\* such claim has exactly one request id mapped to it.
C14_AsynchronousAssignment ==
  /\ [][\A c \in ClaimIds \ {0} :
          /\ claims[c].status = "UnderReview"
          /\ claims[c].assignedReviewer = ZERO
          /\ ~Fulfils
          => claims'[c] = claims[c]
       ]_vars
  /\ \A c \in ClaimIds \ {0} :
       claims[c].status = "UnderReview" ~> claims[c].assignedReviewer # ZERO
  /\ [](\A c \in ClaimIds \ {0} :
          claims[c].status = "UnderReview" => Cardinality(RequestsOf(c)) = 1)

(***************************************************************************)
(* A review request with no reviewer enrolled.                             *)
(***************************************************************************)
\* the analysis just submitted reverted for lack of reviewers
NoReviewers ==
  last'.op = "submitAIAnalysis" /\ last'.err = "No active reviewers"

\* C15: an analysis routed to human review reverts with 'No active
\* reviewers' exactly when the reviewer list is empty: no claim enters
\* UnderReview while the list is empty, and the reverted call leaves the
\* claim Submitted with no report field written, requiresHumanReview false
\* and no request issued, so that the same analysis is accepted once a
\* reviewer is enrolled.
C15_NoReviewers ==
  [][/\ NoReviewers =>
          /\ activeReviewers = << >>
          /\ UNCHANGED <<claims, vrfRequestToClaim, nextRequestId>>
          /\ \E c \in ClaimIds \ {0} :
               /\ refused'[c] = "No active reviewers"
               /\ claims'[c].status = "Submitted"
               /\ claims'[c].fraudRisk = 0
               /\ claims'[c].severity = 0
               /\ claims'[c].claimType = 0
               /\ claims'[c].recommendedPayout = 0
               /\ ~claims'[c].requiresHumanReview
     /\ \A c \in ClaimIds \ {0} :
          claims[c].status # "UnderReview" /\ claims'[c].status = "UnderReview"
          => /\ activeReviewers # << >>
             /\ claims'[c].requiresHumanReview
             /\ nextRequestId' = nextRequestId + 1
             /\ vrfRequestToClaim'[nextRequestId] = c
    ]_vars

\* the analysis of a filed claim reverted for lack of reviewers, a reviewer
\* was enrolled and the analysis, submitted again, sent the claim to review
C15_Witness ==
  /\ last = Call("submitAIAnalysis", ADMIN, 0, "")
  /\ \E c \in UnderReviewClaims :
       /\ refused[c] = "No active reviewers"
       /\ claims[c].requiresHumanReview
       /\ claims[c].fraudRisk = 20
       /\ Cardinality(RequestsOf(c)) = 1

(***************************************************************************)
(* The end-to-end auto-approval of the script.                             *)
(***************************************************************************)
\* the filed, unreported claim c can be paid usd: the thresholds are
\* (20, 70), the payout manager is configured, the policy is active, the
\* quote is valid and the pool holds the converted amount
Payable(c, usd) ==
  /\ claims[c].claimId = c /\ claims[c].status = "Submitted"
  /\ autoApproveThreshold = 20 /\ autoRejectThreshold = 70
  /\ payoutManager = PM
  /\ policies[claims[c].policyId].isActive
  /\ validPrice(price)
  /\ availableFunds >= convertUSDToAVAX(usd).value

\* the step just taken is a report of the oracle that was accepted and
\* wrote claim c
Reported(c) ==
  /\ last'.op = "submitAIAnalysis" /\ last'.who = aiOracle /\ last'.err = ""
  /\ claims'[c] # claims[c]

\* the withdraw called at top level by account a has returned successfully
Withdrawn(a) ==
  /\ Len(frames) = 1 /\ frames[1].caller = a
  /\ last' = Call("withdraw", a, 0, "")

\* C16: with thresholds (20, 70), a configured payout manager, an active
\* policy and a pool holding the converted amount, the report fraudRisk = 10,
\* recommendedPayout = 2000000 on a freshly filed claim is routed to approval
\* and does not revert; it leaves the claim Paid with finalPayout 2000000, a
\* payout record with usdAmount 2000000 and the claimant as recipient, the
\* claimant's balance increased and the pool decreased by exactly the
\* converted amount; the claimant's following withdraw leaves that balance
\* at 0, transfers exactly that amount and adds it to totalWithdrawn.
C16_EndToEndAutoApproval ==
  /\ [](\A c \in ClaimIds \ {0} : \A usd \in ScriptPayouts :
          Payable(c, usd) =>
            /\ \A risk \in ScriptRisks : route(risk, usd) = "approve"
            /\ approveClaim(claims, c, usd).err = "")
  /\ [][\A c \in ClaimIds \ {0} : \A usd \in ScriptPayouts :
          Payable(c, usd) /\ Reported(c) =>
            LET avax == convertUSDToAVAX(usd).value
                claimant == claims[c].claimant
            IN  /\ avax > 0
                /\ claims'[c].status = "Paid"
                /\ claims'[c].finalPayout = usd
                /\ claims'[c].fraudRisk \in ScriptRisks
                /\ payouts'[c].usdAmount = usd
                /\ payouts'[c].recipient = claimant
                /\ payouts'[c].avaxAmount = avax
                /\ payouts'[c].processed
                /\ balances'[claimant] = balances[claimant] + avax
                /\ availableFunds' = availableFunds - avax
                /\ \A a \in Address \ {claimant} : balances'[a] = balances[a]
       ]_vars
  /\ [][\A a \in Accounts : Withdrawn(a) =>
          /\ frames[1].amount = frames[1].saved.balances[a]
          /\ balances'[a] = 0
          /\ transferred'[a] = frames[1].saved.transferred[a] + frames[1].amount
          /\ pmBalance' = frames[1].saved.pmBalance - frames[1].amount
          /\ totalWithdrawn' = totalWithdrawn + frames[1].amount
       ]_vars

\* the script has run to its end: the claim is Paid with the script's
\* payout, and the claimant has withdrawn exactly the converted amount
C16_Witness ==
  /\ last = Call("withdraw", "alice", 0, "")
  /\ frames = << >>
  /\ \E c \in LiveClaims :
       /\ claims[c].status = "Paid" /\ claims[c].claimant = "alice"
       /\ claims[c].fraudRisk = 10 /\ claims[c].finalPayout = 2000000
       /\ payouts[c].usdAmount = 2000000 /\ payouts[c].recipient = "alice"
       /\ payouts[c].avaxAmount = 1000000
       /\ balances["alice"] = 0
       /\ transferred["alice"] = payouts[c].avaxAmount
       /\ totalWithdrawn = payouts[c].avaxAmount
       /\ availableFunds = deposited - payouts[c].avaxAmount

(***************************************************************************)
(* The conversion from USD to AVAX.                                        *)
(***************************************************************************)
\* the call just recorded is a conversion
Converted == last.op = "convertUSDToAVAX"

\* C17: converting usdAmount = 5000000 at the answer 2000000000 yields
\* 25000000000000000 (25 * 10^15).
C17_ConversionExample ==
  /\ Converted
  /\ last.usdAmount = Digits(5000000)
  /\ last.price = Quote(2000000000)
  => /\ last.err = ""
     /\ last.avaxAmount = BigMul(BigPow10(15), Digits(25))

\* q is the integer quotient of n by d: q * d <= n < (q + 1) * d
IsFloor(q, n, d) ==
  /\ ~BigLess(n, BigMul(d, q))
  /\ BigLess(n, BigMul(d, BigAdd(q, <<1>>)))

\* the conversion recorded in last returned the integer quotient of
\* usdAmount * 10^18 by price * 10^2
ReturnsQuotient ==
  /\ last.err = ""
  /\ IsFloor(last.avaxAmount, BigMul(last.usdAmount, BigPow10(18)),
             BigMul(last.price.abs, BigPow10(2)))

\* the answer of the feed used by the conversion is zero or negative
NonPositiveQuote == last.price.neg \/ last.price.abs = << >>

\* a product of the conversion recorded in last exceeds 256 bits
ProductOverflows ==
  \/ BigLess(UINT256_MAX, BigMul(last.usdAmount, BigPow10(18)))
  \/ BigLess(UINT256_MAX, BigMul(last.price.abs, BigPow10(2)))

C19_SolventUnderSweeping ==
  /\ [](pmBalance >= Sum(balances, Address))
  /\ [](\A a \in Accounts : balances[a] <= pmBalance)
  /\ [][last'.op = "withdrawToTreasury" /\ last'.err = ""
          => /\ last'.who = pmAdmin
             /\ swept' - swept <= pmBalance - Sum(balances, Address)
             /\ UNCHANGED <<balances, totalPayouts, totalWithdrawn>>
       ]_vars
  /\ [][last'.op = "withdrawToTreasury" /\ last'.who # pmAdmin
          => /\ last'.err = "Only admin"
             /\ UNCHANGED <<payoutVars, registryVars, processorVars>>
       ]_vars

\* the admin has swept a deposit to the treasury while a recipient's balance
\* was outstanding, and what is left covers exactly that balance
C19_Witness ==
  /\ last = Call("withdrawToTreasury", pmAdmin, 0, "")
  /\ swept > 0
  /\ Sum(balances, Address) > 0
  /\ pmBalance = Sum(balances, Address)

(***************************************************************************)
(* Filing a claim.                                                         *)
(***************************************************************************)
\* the policy exists, belongs to the caller, is active and now lies within
\* its period, both ends included
ValidFor(p, caller) ==
  /\ p # 0 /\ p < nextPolicyId
  /\ policies[p].policyholder = caller
  /\ policies[p].isActive
  /\ policies[p].startDate <= now /\ now <= policies[p].endDate

\* the claims that were filed
Filed == {c \in ClaimIds \ {0} : claims[c].claimId = c}

\* C20: submitClaim(policyId, ...) succeeds if and only if the policy
\* exists, the caller is its holder, it is active and startDate <= now <=
\* endDate, and fails with 'Invalid policy' otherwise; a successful call
\* assigns an id greater than every earlier id, records the caller as
\* claimant with status Submitted and adds one to the policy's claim count;
\* a failed call creates no claim and changes no counter; in every state
\* the claim count of a policy is the number of filed claims that refer to
\* it.
C20_SubmitClaim ==
  /\ [](\A caller \in Accounts : \A p \in PolicyIds :
          /\ submitGuard(caller, p) = "" <=> ValidFor(p, caller)
          /\ submitGuard(caller, p) \in {"", "Invalid policy"})
  /\ [](\A p \in PolicyIds :
          policies[p].claimsCount =
            Cardinality({c \in Filed : claims[c].policyId = p}))
  /\ [](Filed = 1..(nextClaimId - 1))
  /\ [][last'.op = "submitClaim" =>
          IF last'.err = ""
            THEN LET c == nextClaimId
                     p == claims'[c].policyId
                 IN  /\ ValidFor(p, last'.who)
                     /\ nextClaimId' = c + 1
                     /\ \A e \in Filed : e < c
                     /\ claims'[c] = [NoClaim EXCEPT !.claimId = c,
                                                     !.policyId = p,
                                                     !.claimant = last'.who,
                                                     !.timestamp = now]
                     /\ claims'[c].status = "Submitted"
                     /\ \A e \in ClaimIds \ {c} : claims'[e] = claims[e]
                     /\ policies' =
                          [policies EXCEPT ![p].claimsCount = @ + 1]
            ELSE /\ last'.err = "Invalid policy"
                 /\ UNCHANGED <<claims, nextClaimId, policies>>
       ]_vars

\* the holder has filed a second claim in the last second of the policy
C20_Witness ==
  /\ last = Call("submitClaim", "alice", 0, "")
  /\ \E c \in Filed :
       /\ c = nextClaimId - 1
       /\ claims[c].timestamp = policies[claims[c].policyId].endDate
       /\ claims[c].timestamp > policies[claims[c].policyId].startDate
       /\ claims[c].claimant = "alice"
       /\ policies[claims[c].policyId].claimsCount = 2

\* the storage of the three contracts and the state of the collaborators
contractState ==
  <<registryVars, claims, nextClaimId, vrfRequestToClaim, reviewers,
    activeReviewers, payoutManager, aiOracle, autoApproveThreshold,
    autoRejectThreshold, nextRequestId, payouts, balances, totalPayouts,
    totalWithdrawn, availableFunds, treasury, pmBalance, now, price>>

\* claim c has been reported: it was filed and has left Submitted
ReportedClaims ==
  {c \in ClaimIds \ {0} : claims[c].claimId = c /\ claims[c].status # "Submitted"}

Approves(c) ==
  /\ last'.op \in {"submitAIAnalysis", "reviewerApproveClaim"}
  /\ last'.err = ""
  /\ claims[c].status \notin {"Approved", "Paid"}
  /\ claims'[c].status \in {"Approved", "Paid"}

\* C22: while no payout manager is set, every approval is accepted and
\* leaves the claim Approved with finalPayout and processedAt recorded, and
\* creates no Payout record, credits no balance, moves no pool or total and
\* does not change the policy's totalPayouts; while a payout manager is
\* set, every successful approval leaves the claim Paid, not Approved.
C22_ApprovedUnfunded ==
  /\ [](payoutManager = ZERO =>
          \A c \in LiveClaims : \A usd \in UsdAmounts :
            approveClaim(claims, c, usd).err = "")
  /\ [][\A c \in LiveClaims : Approves(c) =>
          IF payoutManager = ZERO
            THEN /\ claims'[c].status = "Approved"
                 /\ claims'[c].processedAt = now
                 /\ last'.op = "submitAIAnalysis" =>
                      claims'[c].finalPayout = claims'[c].recommendedPayout
                 /\ claims'[c].finalPayout \in UsdAmounts
                 /\ UNCHANGED <<payouts, balances, availableFunds, totalPayouts,
                                credited, policies, pmBalance>>
            ELSE claims'[c].status = "Paid"
       ]_vars

\* the assigned reviewer has approved a claim for 2 while no payout manager
\* is set: the claim is Approved and nothing was paid
C22_Witness ==
  /\ payoutManager = ZERO
  /\ last = Call("reviewerApproveClaim", ADMIN, 0, "")
  /\ \E c \in LiveClaims :
       /\ claims[c].status = "Approved"
       /\ claims[c].finalPayout = 2
       /\ claims[c].processedAt = now
       /\ payouts[c] = NoPayout
       /\ balances[claims[c].claimant] = 0
       /\ policies[claims[c].policyId].totalPayouts = 0

\* C23: autoApproveThreshold < autoRejectThreshold in every reachable state.
\* A setThresholds that succeeds was called by the admin; a setThresholds
\* by another account fails with "Only admin", one with
\* _autoApprove >= _autoReject fails with "Invalid thresholds", and a
\* failed call leaves both thresholds and the rest of the state unchanged.
C23_ThresholdOrder ==
  /\ [](autoApproveThreshold < autoRejectThreshold)
  /\ [](\A t \in ThresholdPairs :
          t[1] >= t[2] => ~validThresholds(t[1], t[2]))
  /\ [][last'.op = "setThresholds" =>
          /\ last'.err \in {"", "Only admin", "Invalid thresholds"}
          /\ last'.who # admin => last'.err = "Only admin"
          /\ last'.err = "" =>
               /\ last'.who = admin
               /\ <<autoApproveThreshold', autoRejectThreshold'>> \in ThresholdPairs
          /\ last'.err # "" => UNCHANGED contractState
       ]_vars

\* the admin's setThresholds has been refused as invalid while the
\* thresholds stand at the (100, 101) an earlier call had set
C23_Witness ==
  /\ last = Call("setThresholds", admin, 0, "Invalid thresholds")
  /\ autoApproveThreshold = 100
  /\ autoRejectThreshold = 101

(***************************************************************************)
(* Properties of PolicyRegistry, checked under SpecRegistry.               *)
(***************************************************************************)
\* the policies that were created and cancelled: createPolicy numbers the
\* policies from 1 and creates them active
CancelledPolicies ==
  {p \in PolicyIds \ {0} : policies[p].policyId = p /\ ~policies[p].isActive}

\* the ids createPolicy has not handed out
NeverCreated == {p \in PolicyIds : p = 0 \/ p >= nextPolicyId}

\* the errors of updatePolicy, cancelPolicy, incrementClaimCount and
\* recordPayout on policy p for callers that pass onlyAdmin and
\* onlyClaimsProcessor, and of submitClaim on p for every claimant
RegistryErrors(p) ==
  {policyGuard(p, "Policy is not active"),
   policyGuard(p, "Policy is already inactive"),
   incrementClaimCount(claimsProcessor, p).err}
    \cup {recordPayout(claimsProcessor, p, a).err : a \in UsdAmounts}

FilingErrors(p) == {submitGuard(sender, p) : sender \in Claimants}

\* a cancelled policy is never active again, its record is never deleted or
\* changed, and updatePolicy, cancelPolicy, incrementClaimCount,
\* recordPayout and submitClaim on it fail as inactive or invalid
CancelledFrozen ==
  /\ [][\A p \in CancelledPolicies : policies'[p] = policies[p]]_vars
  /\ [][\A p \in PolicyIds \ {0} :
          policies[p].policyId = p => policies'[p].policyId = p]_vars
  /\ [](\A p \in CancelledPolicies :
          /\ RegistryErrors(p) =
               {"Policy is not active", "Policy is already inactive"}
          /\ FilingErrors(p) = {"Invalid policy"})

\* the same operations on an id that was never created fail as not found
NeverCreatedNotFound ==
  [](\A p \in NeverCreated :
       /\ RegistryErrors(p) = {"Policy does not exist"}
       /\ FilingErrors(p) = {"Policy does not exist"})

\* what the code does on the ids that were never created: id 0 passes the
\* existence test and is refused as inactive, and submitClaim refuses every
\* such id as an invalid policy
NeverCreatedRefused ==
  [](\A p \in NeverCreated :
       /\ policies[p] = NoPolicy
       /\ p # 0 => RegistryErrors(p) = {"Policy does not exist"}
       /\ p = 0 => RegistryErrors(p) =
                     {"Policy is not active", "Policy is already inactive"}
       /\ FilingErrors(p) = {"Invalid policy"})

\* C24, as stated: cancellation is one-way and a cancelled policy is frozen
\* and refuses every later updatePolicy, cancelPolicy, incrementClaimCount,
\* recordPayout and submitClaim; the same operations on a never-created id
\* fail with "Policy does not exist".
C24_CancellationOneWay == CancelledFrozen /\ NeverCreatedNotFound

(***************************************************************************)
(* The sweep to the treasury, checked under SpecPayout.                    *)
(***************************************************************************)
\* withdrawals have brought the contract's balance below totalPayouts
BalanceBelowPayouts == pmBalance < totalPayouts

\* a successful sweep moves its amount out of the pool and out of the
\* contract's balance and touches no recipient balance and no total
SweepEffects ==
  [][last'.op = "withdrawToTreasury" /\ last'.err = "" =>
       \E _amount \in SweepValues :
         /\ availableFunds' = availableFunds - _amount
         /\ pmBalance' = pmBalance - _amount
         /\ swept' = swept + _amount
         /\ UNCHANGED <<balances, totalPayouts, totalWithdrawn, payouts>>
    ]_vars

\* between transactions the bound of the sweep, computed without
\* intermediate results, is the pool
SweepBoundIsPool ==
  [](TopLevel => pmBalance - totalPayouts + totalWithdrawn = availableFunds)

\* what the code does: the sweep succeeds exactly when the contract's
\* balance is not below totalPayouts and the amount is within the bound
SweepWhenBalanceCovers ==
  [](TopLevel => \A _amount \in SweepValues :
       sweepGuard(pmAdmin, _amount, TRUE) = ""
         <=> /\ ~BalanceBelowPayouts
             /\ _amount <= pmBalance - totalPayouts + totalWithdrawn)

\* C25, as stated: withdrawToTreasury(_amount) called by the admin, with a
\* treasury that accepts the transfer, succeeds exactly when _amount <=
\* balance - totalPayouts + totalWithdrawn, in every state between
\* transactions, those with the balance below totalPayouts included; on
\* success the pool and the balance decrease by _amount and no recipient
\* balance, totalPayouts or totalWithdrawn changes.
C25_SweepBound ==
  /\ [](TopLevel => \A _amount \in SweepValues :
          sweepGuard(pmAdmin, _amount, TRUE) = ""
            <=> _amount <= pmBalance - totalPayouts + totalWithdrawn)
  /\ SweepEffects

(***************************************************************************)
(* Claims whose policy was cancelled after they were filed.                *)
(***************************************************************************)
\* the filed claims that wait for a decision while their policy is
\* cancelled and a payout manager is set
Stranded ==
  {c \in LiveClaims :
     /\ claims[c].claimId = c
     /\ claims[c].status \in {"Submitted", "UnderReview"}
     /\ ~policies[claims[c].policyId].isActive
     /\ payoutManager # ZERO}

PaidClaims == {c \in ClaimIds \ {0} : claims[c].status = "Paid"}

\* per claim id, what the claim contributes to the payout total of policy p
PaidUnder(p) ==
  [c \in ClaimIds |->
     IF c \in PaidClaims /\ claims[c].policyId = p
       THEN claims[c].finalPayout ELSE 0]

\* C27: a claim is Paid exactly when a Payout record exists under its id;
\* the record's recipient is the claim's claimant, its usdAmount is the
\* claim's finalPayout and is positive, and its avaxAmount is the conversion
\* of usdAmount at the price of the step that created it; each policy's
\* totalPayouts is the sum of finalPayout over its Paid claims.
C27_LedgerConsistency ==
  /\ [](\A c \in ClaimIds \ {0} : c \in PaidClaims <=> payoutExists(c))
  /\ [](\A c \in PaidClaims :
          /\ claims[c].claimId = c
          /\ payouts[c].claimId = c
          /\ payouts[c].processed
          /\ payouts[c].recipient = claims[c].claimant
          /\ payouts[c].usdAmount = claims[c].finalPayout
          /\ payouts[c].usdAmount > 0)
  /\ [](\A p \in PolicyIds :
          policies[p].totalPayouts = Sum(PaidUnder(p), ClaimIds))
  /\ [][\A c \in ClaimIds \ {0} :
          payouts'[c] # payouts[c] =>
            /\ payouts[c] = NoPayout
            /\ convertUSDToAVAX(payouts'[c].usdAmount).err = ""
            /\ payouts'[c].avaxAmount =
                 convertUSDToAVAX(payouts'[c].usdAmount).value
       ]_vars

\* two claims of one policy have been paid 1 and 2 at different prices, one
\* approved by the reviewer, and the policy's total is 3
C27_Witness ==
  /\ PaidClaims = {1, 2}
  /\ claims[1].policyId = claims[2].policyId
  /\ claims[1].finalPayout = 1 /\ payouts[1].avaxAmount = 10000000
  /\ claims[2].finalPayout = 2 /\ payouts[2].avaxAmount = 10000000
  /\ claims[1].requiresHumanReview
  /\ policies[claims[1].policyId].totalPayouts = 3

(***************************************************************************)
(* Claims approved while no payout manager was set.                        *)
(***************************************************************************)
\* the claim ids whose record is Approved with no Payout record
ApprovedUnfunded ==
  {c \in LiveClaims : claims[c].status = "Approved" /\ ~payoutExists(c)}

\* for the ids submitClaim has assigned: an Approved claim without payout
\* keeps its status, amounts, times and report fields, and no Payout record
\* is created for it
FiledApprovedFrozen ==
  [][\A c \in ApprovedUnfunded :
       claims[c].claimId = c =>
         /\ Resolution(claims'[c]) = Resolution(claims[c])
         /\ claims'[c].claimId = c
         /\ claims'[c].claimant = claims[c].claimant
         /\ claims'[c].policyId = claims[c].policyId
         /\ payouts'[c] = NoPayout]_vars

\* C28, as stated: once the record of a claim is Approved without a Payout
\* record, no operation changes it again: it never becomes Paid and no
\* Payout record is created under its id, whether or not a payout manager
\* is configured and the pool funded afterwards.
C28_ApprovedUnfundedFrozen ==
  [][\A c \in ApprovedUnfunded :
       /\ claims'[c] = claims[c]
       /\ payouts'[c] = NoPayout]_vars

(***************************************************************************)
(* Well-formedness of the claim records between transactions.              *)
(***************************************************************************)
\* a review was requested for claim id c: _requestRandomReviewer stores the
\* request in the step that sets the status UnderReview
HasBeenUnderReview(c) == RequestsOf(c) # {}

\* the parts that hold for every claim id: the status is never AIAnalyzed,
\* a claim under review has requiresHumanReview set, the flag is set only
\* after a review was requested, and processedAt is set exactly in the
\* statuses Approved, Rejected and Paid
RecordsWellFormed ==
  [](\A c \in ClaimIds \ {0} :
       /\ claims[c].status # "AIAnalyzed"
       /\ claims[c].status = "UnderReview" => claims[c].requiresHumanReview
       /\ claims[c].requiresHumanReview => HasBeenUnderReview(c)
       /\ claims[c].processedAt # 0
            <=> claims[c].status \in {"Approved", "Rejected", "Paid"})

\* C29, as stated: between transactions no claim has status AIAnalyzed;
\* requiresHumanReview is set exactly for the claims that are or have been
\* UnderReview; assignedReviewer is non-zero only for such claims; and
\* processedAt is set exactly when the status is Approved, Rejected or Paid.
C29_ClaimRecordWellFormed ==
  /\ RecordsWellFormed
  /\ [](\A c \in ClaimIds \ {0} :
          /\ claims[c].requiresHumanReview =>
               claims[c].status \in {"UnderReview", "Approved", "Rejected", "Paid"}
          /\ claims[c].assignedReviewer # ZERO => claims[c].requiresHumanReview)

(***************************************************************************)
(* The reviewer set, checked under SpecSelection.                          *)
(***************************************************************************)
\* the accounts whose flag reviewers[a] is set
Enabled == {a \in Address : reviewers[a]}

\* the list with slot i overwritten by the last element and the last
\* element dropped
SwapRemove(list, i) ==
  [k \in 1..(Len(list) - 1) |-> IF k = i THEN list[Len(list)] ELSE list[k]]

\* C30: activeReviewers never holds an account twice and holds exactly the
\* accounts whose flag is set.  A successful addReviewer appends one account
\* that was not enabled; a successful removeReviewer takes one enabled
\* account out by moving the last element into its slot, and every other
\* account stays in the list; a failed addReviewer ("Already a reviewer")
\* or removeReviewer ("Not a reviewer") changes neither the flags nor the
\* list.
C30_ReviewerSetConsistent ==
  /\ [](/\ \A i, j \in 1..Len(activeReviewers) :
             activeReviewers[i] = activeReviewers[j] => i = j
        /\ Enrolled = Enabled)
  /\ [][last'.op = "addReviewer" =>
          IF last'.err = ""
            THEN \E a \in Address \ Enabled :
                   /\ activeReviewers' = Append(activeReviewers, a)
                   /\ reviewers' = [reviewers EXCEPT ![a] = TRUE]
            ELSE /\ last'.err = "Already a reviewer"
                 /\ UNCHANGED <<reviewers, activeReviewers>>
       ]_vars
  /\ [][last'.op = "removeReviewer" =>
          IF last'.err = ""
            THEN \E i \in 1..Len(activeReviewers) :
                   LET a == activeReviewers[i] IN
                   /\ activeReviewers' = SwapRemove(activeReviewers, i)
                   /\ reviewers' = [reviewers EXCEPT ![a] = FALSE]
                   /\ Enrolled' = Enrolled \ {a}
            ELSE /\ last'.err = "Not a reviewer"
                 /\ UNCHANGED <<reviewers, activeReviewers>>
       ]_vars

\* the admin, first of three enrolled reviewers, has been removed: the last
\* reviewer has taken the first slot
C30_Witness ==
  /\ last = Call("removeReviewer", ADMIN, 0, "")
  /\ activeReviewers = <<"bob", "alice">>
  /\ Enabled = {"alice", "bob"}

====
